---------------------------- MODULE Spec2Model ----------------------------
(***************************************************************************)
(* A model of the neighborly entity-component runtime, its relationship    *)
(* graph and its life-event engine.                                        *)
(*                                                                         *)
(*   SpecECS  : World / GameObject of core/ecs.py                          *)
(*   SpecRel  : Relationship / Relationships of core/relationship.py       *)
(*   SpecLife : life events of core/life_event.py and                      *)
(*              plugins/defaults/life_events.py                            *)
(*                                                                         *)
(* Python dicts are insertion-ordered: a dict is a sequence of <<key,      *)
(* value>> pairs, and the Dict* operators below do what dict assignment,   *)
(* lookup and deletion do.                                                 *)
(***************************************************************************)
EXTENDS Integers, Sequences, FiniteSets, TLC

\* ------------------------------------------------------------------ bounds
MaxObjects == 2
MaxDead == 3
\* The characters of the relationship graph, and the relationships it may create.
MaxRels == 2
MaxRelDead == 1
\* Bounds of the life events: entries in the log, the last date.
MaxLog == 2
MaxDate == 2
\* The steps each of the two compared runs takes.
MaxTicks == 2
\* The steps a simulation starts, and the listeners registered on its bus.
MaxSteps == 2
MaxListeners == 2

\* Ids esper can hand out within the bound (esper counts from 1).
Ids == 1..MaxObjects
\* Component types and component instances of each type.
Types == {"A", "B"}
\* A component instance: its type and which instance of the type it is. Two
\* instances of one type are enough to tell a replaced component from the
\* one that replaced it.
Components == {[type |-> "A", inst |-> 1], [type |-> "A", inst |-> 2],
               [type |-> "B", inst |-> 1]}

\* ------------------------------------------------------------- python dicts
SeqToSet(s) == {s[i] : i \in 1..Len(s)}
InSeq(x, s) == \E i \in 1..Len(s) : s[i] = x
RemoveAll(s, x) == SelectSeq(s, LAMBDA e : e # x)

DictHas(d, k) == \E i \in 1..Len(d) : d[i][1] = k
DictIndex(d, k) == CHOOSE i \in 1..Len(d) : d[i][1] = k
DictGet(d, k) == d[DictIndex(d, k)][2]
DictDel(d, k) == SelectSeq(d, LAMBDA e : e[1] # k)
DictKeys(d) == [i \in 1..Len(d) |-> d[i][1]]
DictValues(d) == [i \in 1..Len(d) |-> d[i][2]]
\* d[k] = v where k is always a new key: what a list append would do.
DictSetAppending(d, k, v) == Append(d, <<k, v>>)
\* d[k] = v : an existing key keeps its position and gets the new value.
DictSet(d, k, v) ==
    IF DictHas(d, k) THEN [d EXCEPT ![DictIndex(d, k)] = <<k, v>>]
    ELSE Append(d, <<k, v>>)
\* How many entries of d are stored under key k.
DictCount(d, k) == Cardinality({i \in 1..Len(d) : d[i][1] = k})

\* ---------------------------------------------------------------- state
VARIABLES
    \* World (core/ecs.py)
    gameobjects,      \* World._gameobjects: the ids, in insertion order
    goComponents,     \* GameObject._components of every GameObject ever made
    ecsEntities,      \* esper _entities: id -> dict type -> instance (<<>>: absent)
    ecsComponents,    \* esper _components: type -> set of ids
    nextEntityId,     \* esper _next_entity_id
    dead,             \* World._dead_gameobjects
    pc,               \* "idle": between steps; "systems": the systems of a step run
    stepError,        \* the exception the last call of step() raised: "none", "KeyError"
    lastOp,           \* history: "add_component_again" when the last operation was an
                      \* add_component of a type the gameobject already held, else "other"
    issued            \* history: the ids spawn_gameobject has returned so far

VARIABLES
    \* The relationship graph (core/relationship.py)
    rGameobjects,     \* the ids in the world: characters and relationships
    rNextId,          \* the last id handed out
    rDead,            \* World._dead_gameobjects
    rActive,          \* the gameobjects whose active flag is set
    relationship,     \* Relationship component of a relationship: <<owner, target>>
    outgoing,         \* Relationships.outgoing of each character: target -> relationship
    incoming,         \* Relationships.incoming of each character: owner -> relationship
    socialRules,      \* SocialRuleLibrary._rules
    applied,          \* the rules whose apply ran on each relationship, in order
    active_rules,     \* Relationship._active_rules of each relationship
    stats,            \* the base value of each stat component of a relationship
    createdEvents,    \* history: the relationships of the RelationshipCreatedEvents dispatched
    ruleChecks,       \* history: the relationships the library was evaluated against
    lastCall          \* history: what the operation just performed returned (NoCall: nothing)

ecsVars == <<gameobjects, goComponents, ecsEntities, ecsComponents,
             nextEntityId, dead, pc, stepError, lastOp, issued>>

relVars == <<rGameobjects, rNextId, rDead, rActive, relationship, outgoing,
             incoming, socialRules, applied, active_rules, stats,
             createdEvents, ruleChecks, lastCall>>

VARIABLES
    \* The life events (core/life_event.py)
    leWorld,          \* the gameobjects life events bind: their components and relationships
    registry,         \* LifeEvents._registry: name -> life event type
    date,             \* the SimDateTime resource
    next_trigger,     \* LifeEventSimulator.next_trigger
    event_history,    \* LifeEventLog.event_history
    executed,         \* history: the events execute_fn was called with, in order
    lastTick,         \* history: what the last process() did for each event type, in order
    lastInst,         \* history: the last direct call of instantiate and what it returned
    ticked,           \* history: whether the last process() returned at its gate
    lastAttempt       \* history: the date of the last process() that passed its gate

lifeVars == <<leWorld, registry, date, next_trigger, event_history, executed,
              lastTick, lastInst, ticked, lastAttempt>>

VARIABLES
    \* Two runs of one configuration (simulation.py, core/life_event.py)
    config,           \* the configuration both runs start from: seed, registration order, world
    runs              \* of each run: the rng's state, the event log and, for each step
                      \* taken, the values drawn and the events logged

detVars == <<config, runs>>

VARIABLES
    \* The simulation's scheduler, driver and event bus (simulation.py)
    children,         \* of the root and of each system group: its (priority, system) list
    typedListeners,   \* the listeners registered with on_event, by event type
    subscribers,      \* the any-event listeners (LifeEventLog._subscribers)
    registrations,    \* history: the listener registrations, in the order they were made
    simPc,            \* 0: no step under way; k: the k-th system of the step runs next
    ran,              \* the systems the last started step has run, each with the date it read
    simDate,          \* the SimDateTime resource
    started,          \* the steps started so far
    driver,           \* the call of run_for or step under way, or the last one, and how it ended
    dispatched,       \* history: the last event dispatched and the listeners invoked for it
    added             \* history: the add_system calls of the plugins, in order

simVars == <<children, added, typedListeners, subscribers, registrations, simPc, ran,
             simDate, started, driver, dispatched>>

VARIABLES
    \* A world and the lookups made in it (core/ecs.py)
    lkObjects,        \* World._gameobjects: id -> GameObject._components, in insertion order
    lkCall            \* history: the last call, what it raised or returned, the hooks it ran

lkVars == <<lkObjects, lkCall>>

VARIABLES
    \* A world and the queries made in it (core/ecs.py over esper)
    qGameobjects,     \* World._gameobjects: the ids, in insertion order
    qComponents,      \* esper _components: type -> set of ids
    qNextId,          \* esper _next_entity_id
    qResult           \* history: the last query and the ids it returned, in order

qVars == <<qGameobjects, qComponents, qNextId, qResult>>

VARIABLES
    \* A world of gameobjects with parents and children (GameObject, World)
    hGameobjects,     \* the ids of the gameobjects in the world
    hNextId,          \* the last id handed out
    hierarchy,        \* of each gameobject: its parent (None: none) and its children
    hDead,            \* the gameobjects queued by destroy
    hRemoved,         \* history: the gameobjects the last step removed, in order
    hCall             \* history: the add_child or remove_child call just made

hVars == <<hGameobjects, hNextId, hierarchy, hDead, hRemoved, hCall>>

VARIABLES
    \* The resources of a world (core/ecs.py)
    resources,        \* World._resources: type -> resource, in insertion order
    rsCall            \* history: the last call, what it raised or returned

rsVars == <<resources, rsCall>>

VARIABLES
    \* The systems of a world (core/ecs.py, over esper's processors)
    processors,       \* esper's _processors: the systems, in the order they run
    nextSystem,       \* the number of systems constructed so far
    updates,          \* how many times the process of each system has run
    stepsSince,       \* history: the steps taken while each system was registered
    addedTypes,       \* history: the types added and not removed since
    sysCall           \* history: the last call, what it returned or ran

sysVars == <<processors, nextSystem, updates, stepsSince, addedTypes, sysCall>>

VARIABLES
    \* The plugins of a simulation (simulation.py)
    setups,           \* how many times the setup of each plugin has run
    plgCall           \* history: the last load_plugin, the plugin and what was raised

plgVars == <<setups, plgCall>>

VARIABLES
    \* A world whose gameobjects are spawned from archetypes (core/ecs.py)
    aGameobjects,     \* World._gameobjects: id -> the archetype of the gameobject
    aEntities,        \* the ids esper stores
    aNextId,          \* esper _next_entity_id
    aDead,            \* World._dead_gameobjects
    instances,        \* EntityArchetype._instances of each archetype
    aError            \* the exception the last call of step() raised

archVars == <<aGameobjects, aEntities, aNextId, aDead, instances, aError>>

VARIABLES
    \* A town with schools (plugins/talktown/school.py)
    schNextId,        \* esper _next_entity_id
    schools,          \* the gameobjects with a School component: id -> School.students
    pupils,           \* the characters: id -> life stage, Student status, Active
    graduates,        \* history: the characters a SchoolSystem update has graduated
    schError          \* the exception the last on_update raised

schVars == <<schNextId, schools, pupils, graduates, schError>>

VARIABLES
    \* The couples of a town (plugins/defaults/life_events.py)
    dRels,            \* the relationship gameobject of each ordered pair of characters
    dActive,          \* the characters with the Active component
    dStage,           \* LifeStage.life_stage of each character
    dResidence,       \* Resident.residence of each character
    dLastName,        \* GameCharacter.last_name of each character
    dYear,            \* the SimDateTime resource, in years
    dLast             \* history: the last attempted life event

dtVars == <<dRels, dActive, dStage, dResidence, dLastName, dYear, dLast>>

VARIABLES
    \* Dying of old age (plugins/defaults/life_events.py)
    oaLibrary,        \* RandomLifeEventLibrary: the event types registered, in order
    oaAge,            \* Age.value of each character
    oaLifespan,       \* Lifespan.value of each character
    oaActive,         \* the characters with the Active component
    oaLog,            \* the event log
    oaLast            \* history: the last step, the characters that could die in it
                      \* and the events it logged

oaVars == <<oaLibrary, oaAge, oaLifespan, oaActive, oaLog, oaLast>>

VARIABLES
    \* The life events of the default plugin (plugins/default_plugin/events.py)
    evWorld,          \* World._gameobjects: the characters in the world
    evDead,           \* World._dead_gameobjects
    evChars,          \* GameCharacter of each character: alive, age
    evStatuses,       \* StatusManager of each character: Senior, Dating, Married
    evNetwork,        \* the nodes of the RelationshipNetwork
    evLog,            \* EventLog: the records, in order
    evError           \* the exception the last step raised

evVars == <<evWorld, evDead, evChars, evStatuses, evNetwork, evLog, evError>>

laterVars == <<rsVars, sysVars, plgVars, archVars, schVars, dtVars, oaVars, evVars>>

extraVars == <<lkVars, qVars, hVars, laterVars>>

coreVars == <<ecsVars, relVars, lifeVars, detVars, simVars>>

moreVars == <<detVars, simVars, extraVars>>

vars == <<ecsVars, relVars, lifeVars, moreVars>>

rsRest == <<coreVars, lkVars, qVars, hVars, sysVars, plgVars, archVars, schVars, dtVars, oaVars, evVars>>
sysRest == <<coreVars, lkVars, qVars, hVars, rsVars, plgVars, archVars, schVars, dtVars, oaVars, evVars>>
plgRest == <<coreVars, lkVars, qVars, hVars, rsVars, sysVars, archVars, schVars, dtVars, oaVars, evVars>>
archRest == <<coreVars, lkVars, qVars, hVars, rsVars, sysVars, plgVars, schVars, dtVars, oaVars, evVars>>
schRest == <<coreVars, lkVars, qVars, hVars, rsVars, sysVars, plgVars, archVars, dtVars, oaVars, evVars>>
dtRest == <<coreVars, lkVars, qVars, hVars, rsVars, sysVars, plgVars, archVars, schVars, oaVars, evVars>>
oaRest == <<coreVars, lkVars, qVars, hVars, rsVars, sysVars, plgVars, archVars, schVars, dtVars, evVars>>
evRest == <<coreVars, lkVars, qVars, hVars, rsVars, sysVars, plgVars, archVars, schVars, dtVars, oaVars>>

\* ------------------------------------------------------------ esper.World
\* An add_component that leaves the type's set of entities alone.
EsperIndexAddNothing(idx, e, c) == idx
\* esper add_component: index the entity under the type, store the instance.
EsperAddComponent(ents, e, c) == [ents EXCEPT ![e] = DictSet(@, c.type, c.inst)]
EsperIndexAdd(idx, e, c) == [idx EXCEPT ![c.type] = @ \cup {e}]
\* esper remove_component: the entity leaves the type's set; an entity with
\* no component left is dropped from _entities.
EsperRemoveComponent(ents, e, t) == [ents EXCEPT ![e] = DictDel(@, t)]
EsperIndexRemove(idx, e, t) == [idx EXCEPT ![t] = @ \ {e}]
\* esper delete_entity(e, immediate=True)
EsperDeleteEntity(ents, e) == [ents EXCEPT ![e] = <<>>]
EsperIndexDelete(idx, e) == [t \in Types |-> idx[t] \ {e}]
\* esper entity_exists
EsperEntityExists(ents, e) == ents[e] # <<>>

\* -------------------------------------------------------------- GameObject
\* GameObject.has_component
has_component(g, t) == DictHas(goComponents[g], t)
\* GameObject.get_component (of a type the gameobject holds)
get_component(g, t) == DictGet(goComponents[g], t)
\* GameObject.components
components(comps) == DictValues(comps)

\* A store that keeps the component already held under the type next to the
\* new one.
StoreComponentAppending(comps, c) == DictSetAppending(comps, c.type, c.inst)
\* self._components[type(component)] = component
StoreComponent(comps, c) == DictSet(comps, c.type, c.inst)

\* World.has_gameobject
has_gameobject(g) == InSeq(g, gameobjects)
\* World.get_component(type): the (id, instance) pairs esper yields
WorldGetComponent(t) == {<<e, DictGet(ecsEntities[e], t)>> : e \in ecsComponents[t]}
\* World.get_components(*types): the ids of the entities holding every type
WorldGetComponents(ts) == {e \in Ids : \A t \in ts : e \in ecsComponents[t]}

\* Adding the components of a list, one after the other, to a dict.
RECURSIVE AddAll(_, _, _)
AddAll(comps, cs, i) ==
    IF i > Len(cs) THEN comps
    ELSE AddAll(StoreComponent(comps, cs[i]), cs, i + 1)

RECURSIVE IndexAll(_, _, _, _)
IndexAll(idx, e, cs, i) ==
    IF i > Len(cs) THEN idx
    ELSE IndexAll(EsperIndexAdd(idx, e, cs[i]), e, cs, i + 1)

\* The component lists a caller may pass to spawn_gameobject.
SpawnLists == UNION {[1..n -> Components] : n \in 0..2}

\* A create_entity that hands out the lowest id no gameobject of the world
\* has.
create_entity_reusing(next, objs) ==
    CHOOSE id \in 1..(Len(objs) + 1) :
        ~InSeq(id, objs) /\ \A o \in 1..(id - 1) : InSeq(o, objs)
\* esper create_entity: self._next_entity_id += 1, and that is the id
create_entity(next, objs) == next + 1

\* --------------------------------------------------------------- actions
\* World.spawn_gameobject(components)
spawn_gameobject(cs) ==
    /\ nextEntityId < MaxObjects
    /\ LET id == create_entity(nextEntityId, gameobjects) IN
       /\ nextEntityId' = id
       /\ issued' = issued \cup {id}
       /\ goComponents' = [goComponents EXCEPT ![id] = AddAll(<<>>, cs, 1)]
       /\ ecsEntities' = [ecsEntities EXCEPT ![id] = AddAll(<<>>, cs, 1)]
       /\ ecsComponents' = IndexAll(ecsComponents, id, cs, 1)
       /\ gameobjects' = Append(gameobjects, id)
       /\ lastOp' = "other"
    /\ UNCHANGED <<dead, pc, stepError>>
    /\ UNCHANGED <<relVars, lifeVars, moreVars>>

\* GameObject.add_component(component)
add_component(g, c) ==
    /\ has_gameobject(g)
    /\ lastOp' = IF has_component(g, c.type) THEN "add_component_again"
                  ELSE "other"
    /\ goComponents' = [goComponents EXCEPT ![g] = StoreComponent(@, c)]
    /\ ecsEntities' = EsperAddComponent(ecsEntities, g, c)
    /\ ecsComponents' = EsperIndexAdd(ecsComponents, g, c)
    /\ UNCHANGED <<gameobjects, nextEntityId, dead, pc, stepError>>
    /\ UNCHANGED <<issued, relVars, lifeVars, moreVars>>

\* GameObject.remove_component(component_type), of a type the gameobject holds
remove_component(g, t) ==
    /\ has_gameobject(g)
    /\ has_component(g, t)
    /\ goComponents' = [goComponents EXCEPT ![g] = DictDel(@, t)]
    /\ ecsEntities' = EsperRemoveComponent(ecsEntities, g, t)
    /\ ecsComponents' = EsperIndexRemove(ecsComponents, g, t)
    /\ lastOp' = "other"
    /\ UNCHANGED <<gameobjects, nextEntityId, dead, pc, stepError>>
    /\ UNCHANGED <<issued, relVars, lifeVars, moreVars>>

\* World.delete_gameobject(gid)
QueueDead(d, g) == Append(d, g)

delete_gameobject(g) ==
    /\ has_gameobject(g)
    /\ Len(dead) < MaxDead
    /\ dead' = QueueDead(dead, g)
    /\ lastOp' = "other"
    /\ UNCHANGED <<gameobjects, goComponents, ecsEntities, ecsComponents,
                   nextEntityId, pc, stepError>>
    /\ UNCHANGED <<issued, relVars, lifeVars, moreVars>>

\* World._clear_dead_gameobjects: the loop over _dead_gameobjects from its
\* i-th entry on. self._gameobjects[gameobject_id] raises KeyError for an id
\* that is no longer in the world, which ends the loop before the list is
\* cleared.
RECURSIVE ClearDeadLoop(_, _)
ClearDeadLoop(w, i) ==
    IF i > Len(w.dead) THEN [w EXCEPT !.dead = <<>>, !.error = "none"]
    ELSE LET gid == w.dead[i] IN
         IF ~InSeq(gid, w.gameobjects) THEN [w EXCEPT !.error = "KeyError"]
         ELSE LET held == components(w.goComponents[gid]) # <<>> IN
              ClearDeadLoop(
                  [w EXCEPT !.gameobjects = RemoveAll(@, gid),
                            !.ecsEntities =
                                IF held THEN EsperDeleteEntity(@, gid) ELSE @,
                            !.ecsComponents =
                                IF held THEN EsperIndexDelete(@, gid) ELSE @],
                  i + 1)

_clear_dead_gameobjects ==
    ClearDeadLoop([gameobjects |-> gameobjects, goComponents |-> goComponents,
                   ecsEntities |-> ecsEntities, ecsComponents |-> ecsComponents,
                   dead |-> dead, error |-> "none"], 1)

\* World.step(), up to the first system: the purge. When the purge raises,
\* step() raises and no system runs.
StepBegin ==
    /\ pc = "idle"
    /\ LET w == _clear_dead_gameobjects IN
       /\ gameobjects' = w.gameobjects
       /\ ecsEntities' = w.ecsEntities
       /\ ecsComponents' = w.ecsComponents
       /\ dead' = w.dead
       /\ stepError' = w.error
       /\ pc' = IF w.error = "none" THEN "systems" ELSE "idle"
    /\ lastOp' = "other"
    /\ UNCHANGED <<goComponents, nextEntityId>>
    /\ UNCHANGED <<issued, relVars, lifeVars, moreVars>>

\* World.step(): esper has run the last system and step() returns.
StepEnd ==
    /\ pc = "systems"
    /\ pc' = "idle"
    /\ lastOp' = "other"
    /\ UNCHANGED <<gameobjects, goComponents, ecsEntities, ecsComponents,
                   nextEntityId, dead, stepError>>
    /\ UNCHANGED <<issued, relVars, lifeVars, moreVars>>

InitECS ==
    /\ gameobjects = <<>>
    /\ goComponents = [g \in Ids |-> <<>>]
    /\ ecsEntities = [g \in Ids |-> <<>>]
    /\ ecsComponents = [t \in Types |-> {}]
    /\ nextEntityId = 0
    /\ dead = <<>>
    /\ pc = "idle"
    /\ stepError = "none"
    /\ lastOp = "other"
    /\ issued = {}

\* The operations a driver (between steps) or a system (within a step) calls.
NextECS ==
    \/ \E cs \in SpawnLists : spawn_gameobject(cs)
    \/ \E g \in Ids, c \in Components : add_component(g, c)
    \/ \E g \in Ids, t \in Types : remove_component(g, t)
    \/ \E g \in Ids : delete_gameobject(g)
    \/ StepBegin
    \/ StepEnd

\* ----------------------------------------------------- relationship graph
\* The characters: two gameobjects holding a Relationships component, which
\* gives the pairs of a character with itself and with another, both ways.
Chars == {1, 2}
\* The ids relationship gameobjects get.
RelIds == (Cardinality(Chars) + 1)..(Cardinality(Chars) + MaxRels)
NoCall == [result |-> 0, created |-> FALSE, steps |-> <<>>, has |-> <<>>, event |-> <<>>]
NoRelationship == <<0, 0>>
\* The social rules a plugin may register, and the pairs each rule's
\* check_preconditions accepts.
Rules == {"always", "others"}
check_preconditions(rule, owner, target) == rule = "always" \/ owner # target

owner(r) == relationship[r][1]
target(r) == relationship[r][2]

\* A has_relationship that looks the target up in the owner's incoming index.
has_relationship_incoming(o, t) == DictHas(incoming[o], t)
\* has_relationship(owner, target)
has_relationship(o, t) == DictHas(outgoing[o], t)

\* Relationship.on_add that leaves the target's index alone.
on_add_outgoing_only(idx, o, t, r) ==
    [outgoing |-> [idx.outgoing EXCEPT ![o] = DictSet(@, t, r)],
     incoming |-> idx.incoming]
\* Relationship.on_add(gameobject)
on_add(idx, o, t, r) ==
    [outgoing |-> [idx.outgoing EXCEPT ![o] = DictSet(@, t, r)],
     incoming |-> [idx.incoming EXCEPT ![t] = DictSet(@, o, r)]]

\* Relationship.on_remove(gameobject): the two del statements, each raising
\* KeyError when the key is missing.
on_remove(idx, o, t) ==
    IF ~DictHas(idx.outgoing[o], t) THEN [idx EXCEPT !.error = "KeyError"]
    ELSE LET out == [idx.outgoing EXCEPT ![o] = DictDel(@, t)] IN
         IF ~DictHas(idx.incoming[t], o)
         THEN [idx EXCEPT !.outgoing = out, !.error = "KeyError"]
         ELSE [idx EXCEPT !.outgoing = out,
                          !.incoming = [@ EXCEPT ![t] = DictDel(@, o)]]

\* SocialRuleLibrary.iter_rules and the loop of add_relationship over it: the
\* rules, in registration order, whose preconditions the pair passes.
RECURSIVE PassingRules(_, _, _, _)
PassingRules(rules, i, o, t) ==
    IF i > Len(rules) THEN <<>>
    ELSE IF check_preconditions(rules[i], o, t)
         THEN <<rules[i]>> \o PassingRules(rules, i + 1, o, t)
         ELSE PassingRules(rules, i + 1, o, t)

\* The components BaseRelationship.instantiate spawns a relationship with.
BaseComponents ==
    <<"Relationship", "Friendship", "Romance", "InteractionScore",
      "PlatonicCompatibility", "RomanticCompatibility", "Statuses", "BaseRelationship">>
\* The stat components among them, and the base_value their __init__ passes.
StatTypes ==
    {"Friendship", "Romance", "InteractionScore",
     "PlatonicCompatibility", "RomanticCompatibility"}
StatBaseValue == 0
BaseStats == [st \in StatTypes |-> StatBaseValue]
NoStats == [st \in StatTypes |-> 0 - 1]

\* Relationship.add_rule(rule)
Relationship_add_rule(active, rule) == Append(active, rule)
\* ISocialRule.apply of each rule, a plugin's code: the apply of "others"
\* lists the rule on the relationship with Relationship.add_rule, the apply
\* of "always" changes no field of the relationship component.
apply(rule, active) ==
    IF rule = "others" THEN Relationship_add_rule(active, rule) ELSE active

Step(name, arg) == [step |-> name, arg |-> arg]
\* The loop of add_relationship over iter_rules, as the calls it makes.
RECURSIVE EvaluateRules(_, _, _, _)
EvaluateRules(rules, i, o, t) ==
    IF i > Len(rules) THEN <<>>
    ELSE (IF check_preconditions(rules[i], o, t)
          THEN <<Step("check_preconditions", rules[i]), Step("apply", rules[i])>>
          ELSE <<Step("check_preconditions", rules[i])>>)
         \o EvaluateRules(rules, i + 1, o, t)
\* The rules' active list after the loop.
RECURSIVE ApplyRules(_, _, _, _, _)
ApplyRules(active, rules, i, o, t) ==
    IF i > Len(rules) THEN active
    ELSE ApplyRules(IF check_preconditions(rules[i], o, t)
                    THEN apply(rules[i], active) ELSE active,
                    rules, i + 1, o, t)

\* An add_relationship that evaluates the rules before it dispatches the event.
AddRelationshipStepsRulesFirst(rules, o, t, r) ==
    <<Step("instantiate", BaseComponents)>> \o EvaluateRules(rules, 1, o, t)
        \o <<Step("dispatch", r)>>
\* The calls add_relationship makes past its check of owner.outgoing, in order.
AddRelationshipSteps(rules, o, t, r) ==
    <<Step("instantiate", BaseComponents), Step("dispatch", r)>>
        \o EvaluateRules(rules, 1, o, t)

\* add_relationship(owner, target) past its check of owner.outgoing:
\* BaseRelationship.instantiate, the RelationshipCreatedEvent, the rules.
CreateRelationship(o, t) ==
    /\ rNextId + 1 \in RelIds
    /\ LET r == rNextId + 1
           idx == on_add([outgoing |-> outgoing, incoming |-> incoming], o, t, r)
       IN
       /\ rNextId' = r
       /\ rGameobjects' = rGameobjects \cup {r}
       /\ rActive' = rActive \cup {r}
       /\ relationship' = [relationship EXCEPT ![r] = <<o, t>>]
       /\ outgoing' = idx.outgoing
       /\ incoming' = idx.incoming
       /\ createdEvents' = Append(createdEvents, r)
       /\ ruleChecks' = Append(ruleChecks, r)
       /\ applied' = [applied EXCEPT ![r] = PassingRules(socialRules, 1, o, t)]
       /\ active_rules' = [active_rules EXCEPT
                               ![r] = ApplyRules(<<>>, socialRules, 1, o, t)]
       /\ stats' = [stats EXCEPT ![r] = BaseStats]
       /\ lastCall' = [NoCall EXCEPT !.result = r, !.created = TRUE,
                                     !.steps = AddRelationshipSteps(socialRules, o, t, r)]
    /\ UNCHANGED <<rDead, socialRules>>

ReturnRelationship(o, t) ==
    /\ lastCall' = [NoCall EXCEPT !.result = DictGet(outgoing[o], t)]
    /\ UNCHANGED <<rGameobjects, rNextId, rDead, rActive, relationship, outgoing,
                   incoming, socialRules, applied, active_rules, stats,
                   createdEvents, ruleChecks>>

\* add_relationship without its check of owner.outgoing.
add_relationship_unchecked(o, t) ==
    /\ {o, t} \subseteq rGameobjects
    /\ CreateRelationship(o, t)
    /\ UNCHANGED <<ecsVars, lifeVars, moreVars>>

\* add_relationship(owner, target)
add_relationship(o, t) ==
    /\ {o, t} \subseteq rGameobjects
    /\ IF DictHas(outgoing[o], t) THEN ReturnRelationship(o, t)
       ELSE CreateRelationship(o, t)
    /\ UNCHANGED <<ecsVars, lifeVars, moreVars>>

\* get_relationship(subject, target)
get_relationship(o, t) ==
    /\ {o, t} \subseteq rGameobjects
    /\ IF ~DictHas(outgoing[o], t) THEN CreateRelationship(o, t)
       ELSE ReturnRelationship(o, t)
    /\ UNCHANGED <<ecsVars, lifeVars, moreVars>>

\* A call of has_relationship(owner, target)
call_has_relationship(o, t) ==
    /\ lastCall' = [NoCall EXCEPT !.has = <<o, t, has_relationship(o, t)>>]
    /\ UNCHANGED <<rGameobjects, rNextId, rDead, rActive, relationship, outgoing,
                   incoming, socialRules, applied, active_rules, stats,
                   createdEvents, ruleChecks>>
    /\ UNCHANGED <<ecsVars, lifeVars, moreVars>>

\* SocialRuleLibrary.add_rule: _rules is an ordered set
add_rule(rule) ==
    /\ socialRules' = IF InSeq(rule, socialRules) THEN socialRules
                      ELSE Append(socialRules, rule)
    /\ socialRules' # socialRules
    \* plugins register their rules in setup, before any relationship exists
    /\ rNextId = Cardinality(Chars)
    /\ lastCall' = NoCall
    /\ UNCHANGED <<rGameobjects, rNextId, rDead, rActive, relationship, outgoing,
                   incoming, applied, active_rules, stats,
                   createdEvents, ruleChecks>>
    /\ UNCHANGED <<ecsVars, lifeVars, moreVars>>

\* GameObject.deactivate: the gameobject stays in the world, its active flag
\* is cleared.
deactivate(active, g) == active \ {g}

\* The loops of deactivate_relationships over the values of an index.
RECURSIVE DeactivateAll(_, _, _)
DeactivateAll(active, rels, i) ==
    IF i > Len(rels) THEN active
    ELSE DeactivateAll(deactivate(active, rels[i]), rels, i + 1)

\* A deactivate_relationships that passes over the incoming index.
DeactivateOutgoingOnly(active, out, inc) == DeactivateAll(active, DictValues(out), 1)
\* Relationships.deactivate_relationships: the loop over self.outgoing, then
\* the loop over self.incoming.
DeactivateRelationships(active, out, inc) ==
    DeactivateAll(DeactivateAll(active, DictValues(out), 1), DictValues(inc), 1)

\* The events Neighborly.__init__ registers the listeners
\* deactivate_relationships_on_death and deactivate_relationships_on_depart for.
CharacterEvents == {"DeathEvent", "DepartEvent"}
\* The listener of event e, run for the character of the event: both call
\* deactivate_relationships of the character's Relationships component.
deactivate_relationships_on(e, active, out, inc) ==
    DeactivateRelationships(active, out, inc)

\* The dispatch of a DeathEvent or a DepartEvent of character c
dispatch_character_event(e, c) ==
    /\ c \in rGameobjects
    /\ rActive' = deactivate_relationships_on(e, rActive, outgoing[c], incoming[c])
    /\ lastCall' = [NoCall EXCEPT !.event = <<e, c>>]
    /\ UNCHANGED <<rGameobjects, rNextId, rDead, relationship, outgoing, incoming,
                   socialRules, applied, active_rules, stats,
                   createdEvents, ruleChecks>>
    /\ UNCHANGED <<ecsVars, lifeVars, moreVars>>

\* Relationships.deactivate_relationships of character c
deactivate_relationships(c) ==
    /\ c \in rGameobjects
    /\ rActive' = DeactivateRelationships(rActive, outgoing[c], incoming[c])
    /\ rActive' # rActive
    /\ lastCall' = NoCall
    /\ UNCHANGED <<rGameobjects, rNextId, rDead, relationship, outgoing, incoming,
                   socialRules, applied, active_rules, stats,
                   createdEvents, ruleChecks>>
    /\ UNCHANGED <<ecsVars, lifeVars, moreVars>>

\* World.delete_gameobject of a character or of a relationship
rel_delete_gameobject(g) ==
    /\ g \in rGameobjects
    /\ Len(rDead) < MaxRelDead
    /\ rDead' = QueueDead(rDead, g)
    /\ lastCall' = NoCall
    /\ UNCHANGED <<rGameobjects, rNextId, rActive, relationship, outgoing, incoming,
                   socialRules, applied, active_rules, stats,
                   createdEvents, ruleChecks>>
    /\ UNCHANGED <<ecsVars, lifeVars, moreVars>>

\* World._clear_dead_gameobjects in a world of characters and relationships:
\* the on_remove of a relationship's Relationship component takes it out of
\* the two indices; Relationships has no on_remove. A purged gameobject is
\* out of the world for good: the model forgets its components.
RECURSIVE RelClearDeadLoop(_, _)
RelClearDeadLoop(w, i) ==
    IF i > Len(w.dead) THEN [w EXCEPT !.dead = <<>>]
    ELSE LET gid == w.dead[i] IN
         IF gid \notin w.gameobjects THEN [w EXCEPT !.error = "KeyError"]
         ELSE LET w1 == IF gid \in RelIds
                        THEN on_remove(w, w.relationship[gid][1], w.relationship[gid][2])
                        ELSE w
              IN IF w1.error # "none" THEN w1
                 ELSE RelClearDeadLoop(
                          [w1 EXCEPT !.gameobjects = @ \ {gid},
                                     !.active = @ \ {gid},
                                     !.relationship =
                                         IF gid \in RelIds
                                         THEN [@ EXCEPT ![gid] = NoRelationship]
                                         ELSE @,
                                     !.applied =
                                         IF gid \in RelIds
                                         THEN [@ EXCEPT ![gid] = <<>>] ELSE @,
                                     !.active_rules =
                                         IF gid \in RelIds
                                         THEN [@ EXCEPT ![gid] = <<>>] ELSE @,
                                     !.stats =
                                         IF gid \in RelIds
                                         THEN [@ EXCEPT ![gid] = NoStats] ELSE @],
                          i + 1)

\* World.step() in that world: the purge (no system is registered)
rel_step ==
    /\ rDead # <<>>
    /\ LET w == RelClearDeadLoop([gameobjects |-> rGameobjects, dead |-> rDead,
                                  outgoing |-> outgoing, incoming |-> incoming,
                                  active |-> rActive, relationship |-> relationship,
                                  applied |-> applied, active_rules |-> active_rules,
                                  stats |-> stats, error |-> "none"], 1)
       IN /\ rGameobjects' = w.gameobjects
          /\ rDead' = w.dead
          /\ outgoing' = w.outgoing
          /\ incoming' = w.incoming
          /\ rActive' = w.active
          /\ relationship' = w.relationship
          /\ applied' = w.applied
          /\ active_rules' = w.active_rules
          /\ stats' = w.stats
    /\ lastCall' = NoCall
    /\ UNCHANGED <<rNextId, socialRules, createdEvents, ruleChecks>>
    /\ UNCHANGED <<ecsVars, lifeVars, moreVars>>

InitRel ==
    /\ rGameobjects = Chars
    /\ rNextId = Cardinality(Chars)
    /\ rDead = <<>>
    /\ rActive = Chars
    /\ relationship = [r \in RelIds |-> NoRelationship]
    /\ outgoing = [c \in Chars |-> <<>>]
    /\ incoming = [c \in Chars |-> <<>>]
    /\ socialRules = <<>>
    /\ applied = [r \in RelIds |-> <<>>]
    /\ active_rules = [r \in RelIds |-> <<>>]
    /\ stats = [r \in RelIds |-> NoStats]
    /\ createdEvents = <<>>
    /\ ruleChecks = <<>>
    /\ lastCall = NoCall

NextRel ==
    \/ \E o \in Chars, t \in Chars : add_relationship(o, t)
    \/ \E o \in Chars, t \in Chars : get_relationship(o, t)
    \/ \E rule \in Rules : add_rule(rule)
    \/ \E c \in Chars : deactivate_relationships(c)
    \/ \E g \in Chars \cup RelIds : rel_delete_gameobject(g)
    \/ rel_step

\* The relationship graph under the calls that read it and the events of
\* its characters, in a world whose rule library is empty.
NextRelEvents ==
    \/ \E o \in Chars, t \in Chars : add_relationship(o, t)
    \/ \E o \in Chars, t \in Chars : call_has_relationship(o, t)
    \/ \E e \in CharacterEvents, c \in Chars : dispatch_character_event(e, c)
    \/ \E g \in Chars \cup RelIds : rel_delete_gameobject(g)
    \/ rel_step

\* ------------------------------------------------------------ life events
\* The gameobjects of the world life events are bound in.
LEObjs == {1, 2, 3}
None == 0
\* The values rng.random() returns, in hundredths of [0, 1).
Draws == {0, 50, 99}
\* LifeEventSimulator.interval
Interval == 2

\* LifeEvent(name, timestamp, roles) and EventRole(name, gid)
LifeEvent(name, timestamp, roles) ==
    [name |-> name, timestamp |-> timestamp, roles |-> roles]
EventRole(name, gid) == [name |-> name, gid |-> gid]
\* The None an instantiate or a fill_role returns.
NoEvent == LifeEvent("", 0, <<>>)
NoRole == EventRole("", None)

\* The worlds the simulation is populated with.
EmptyWorld ==
    [components |-> [g \in LEObjs |-> {}],
     outgoing |-> [g \in LEObjs |-> {}],
     dating |-> {}]
Worlds ==
    {[components |-> (1 :> {"GameCharacter", "Active", "CanGetPregnant"}
                      @@ 2 :> {"GameCharacter", "Active", "CanGetPregnant"}
                      @@ 3 :> {"GameCharacter"}),
      outgoing |-> (1 :> {2} @@ 2 :> {1} @@ 3 :> {}),
      dating |-> {<<1, 2>>, <<2, 1>>}],
     [components |-> (1 :> {"GameCharacter", "Active", "CanGetPregnant", "Pregnant"}
                      @@ 2 :> {"GameCharacter", "Active"}
                      @@ 3 :> {}),
      outgoing |-> (1 :> {2} @@ 2 :> {1} @@ 3 :> {}),
      dating |-> {<<1, 2>>}],
     [components |-> (1 :> {"GameCharacter"} @@ 2 :> {} @@ 3 :> {}),
      outgoing |-> (1 :> {} @@ 2 :> {} @@ 3 :> {}),
      dating |-> {}]}

\* EventRoleType(name, components, filter_fn, binder_fn)
EventRoleType(name, cts, f, b) ==
    [name |-> name, components |-> cts, filter_fn |-> f, binder_fn |-> b]

\* The life event types a plugin registers: LifeEventType(name, roles,
\* probability, execute_fn), the probability in hundredths.
LifeEventTypes == {"ComeOfAge", "Meet", "Announce"}
LifeEventType(n) ==
    CASE n = "ComeOfAge" ->
           [name |-> n,
            roles |-> <<EventRoleType("Subject", <<"GameCharacter", "Active">>,
                                      "default", "none")>>,
            probability |-> 100, execute_fn |-> TRUE]
      [] n = "Meet" ->
           [name |-> n,
            roles |-> <<EventRoleType("Subject", <<"GameCharacter", "Active">>,
                                      "default", "none"),
                        EventRoleType("Other", <<"GameCharacter">>,
                                      "unbound", "none")>>,
            probability |-> 50, execute_fn |-> TRUE]
      [] n = "Announce" ->
           [name |-> n,
            roles |-> <<EventRoleType("Mother", <<>>, "default", "pregnant")>>,
            probability |-> 50, execute_fn |-> FALSE]
\* The names of the roles a type declares.
RoleNames(n) == {LifeEventType(n).roles[i].name : i \in 1..Len(LifeEventType(n).roles)}

\* RoleFilterFn: the default lambda, and a filter that rejects a gameobject
\* the event already has in a role.
filter_fn(f, world, event, g) ==
    CASE f = "default" -> TRUE
      [] f = "unbound" -> \A i \in 1..Len(event.roles) : event.roles[i].gid # g

\* RoleBinderFn: what a binder may return. This one returns a gameobject
\* holding Pregnant, or None when there is none.
binder_fn(b, world, event) ==
    LET found == {g \in LEObjs : "Pregnant" \in world.components[g]}
    IN IF found = {} THEN {None} ELSE found

\* world.get_components(*component_types): the ids holding every type
le_get_components(world, cts) ==
    {g \in LEObjs : \A i \in 1..Len(cts) : cts[i] \in world.components[g]}

\* candidate.has_component(*component_types)
le_has_component(world, g, cts) ==
    \A i \in 1..Len(cts) : cts[i] \in world.components[g]

\* EventRoleType.fill_role: the roles it may return (the rng chooses among
\* the candidates), NoRole for None.
fill_role(rt, world, event) ==
    IF rt.binder_fn # "none"
    THEN {IF obj # None THEN EventRole(rt.name, obj) ELSE NoRole :
              obj \in binder_fn(rt.binder_fn, world, event)}
    ELSE LET candidate_list ==
                 {g \in le_get_components(world, rt.components) :
                      filter_fn(rt.filter_fn, world, event, g)}
         IN IF \E c \in candidate_list : c # 0
            THEN {EventRole(rt.name, c) : c \in candidate_list}
            ELSE {NoRole}

\* fill_role_with that binds the candidate without looking at it.
fill_role_with_unchecked(rt, world, event, candidate) ==
    EventRole(rt.name, candidate)
\* EventRoleType.fill_role_with
fill_role_with(rt, world, event, candidate) ==
    IF /\ le_has_component(world, candidate, rt.components)
       /\ filter_fn(rt.filter_fn, world, event, candidate)
    THEN EventRole(rt.name, candidate)
    ELSE NoRole

\* kwargs.get(name)
KwGet(kwargs, name) == IF DictHas(kwargs, name) THEN DictGet(kwargs, name) ELSE None

\* A pass of the loop of instantiate: the role type, the roles the event
\* held when fill_role or fill_role_with (and with it the role's filter or
\* binder) ran, whether a role came back, and whether rng.choice was called.
Call(role_type, life_event, temp, draw) ==
    [role |-> role_type.name, bound |-> life_event.roles,
     filled |-> temp # NoRole, draw |-> draw]

\* An instantiate that hands every role an event without the roles bound so far.
RECURSIVE InstantiateCallsFreshEvent(_, _, _, _, _, _)
InstantiateCallsFreshEvent(et, world, life_event, kwargs, i, calls) ==
    IF i > Len(et.roles) THEN {[event |-> life_event, calls |-> calls]}
    ELSE LET role_type == et.roles[i]
             fresh == [life_event EXCEPT !.roles = <<>>]
             bound_object == KwGet(kwargs, role_type.name)
             temps == IF bound_object # None
                      THEN {fill_role_with(role_type, world, fresh, bound_object)}
                      ELSE fill_role(role_type, world, fresh)
         IN UNION {LET call == Call(role_type, fresh, temp,
                                    /\ bound_object = None
                                    /\ role_type.binder_fn = "none"
                                    /\ temp # NoRole)
                   IN IF temp # NoRole
                      THEN InstantiateCallsFreshEvent(
                               et, world, [life_event EXCEPT !.roles = Append(@, temp)],
                               kwargs, i + 1, Append(calls, call))
                      ELSE {[event |-> NoEvent, calls |-> Append(calls, call)]} :
                   temp \in temps}

\* The loop of AbstractLifeEventType.instantiate from role i on: the events
\* it may return, NoEvent for None, each with the passes of the loop made.
\* fill_role calls rng.choice when it has a candidate and no binder.
RECURSIVE InstantiateCalls(_, _, _, _, _, _)
InstantiateCalls(et, world, life_event, kwargs, i, calls) ==
    IF i > Len(et.roles) THEN {[event |-> life_event, calls |-> calls]}
    ELSE LET role_type == et.roles[i]
             bound_object == KwGet(kwargs, role_type.name)
             temps == IF bound_object # None
                      THEN {fill_role_with(role_type, world, life_event, bound_object)}
                      ELSE fill_role(role_type, world, life_event)
         IN UNION {LET call == Call(role_type, life_event, temp,
                                    /\ bound_object = None
                                    /\ role_type.binder_fn = "none"
                                    /\ temp # NoRole)
                   IN IF temp # NoRole
                      THEN InstantiateCalls(
                               et, world, [life_event EXCEPT !.roles = Append(@, temp)],
                               kwargs, i + 1, Append(calls, call))
                      ELSE {[event |-> NoEvent, calls |-> Append(calls, call)]} :
                   temp \in temps}

\* The events the loop may return.
InstantiateFrom(et, world, life_event, kwargs, i) ==
    {r.event : r \in InstantiateCalls(et, world, life_event, kwargs, i, <<>>)}

\* AbstractLifeEventType.instantiate(world, **kwargs)
instantiate(et, world, now, kwargs) ==
    InstantiateFrom(et, world, LifeEvent(et.name, now, <<>>), kwargs, 1)

\* EventRoleList.get_first_or_none(role_name)
get_first_or_none(bindings, role_name) == KwGet(bindings, role_name)

\* GetPregnantLifeEvent._bind_pregnant_one: the gameobjects it may return
_bind_pregnant_one(world, candidate) ==
    LET candidates == IF candidate # None THEN {candidate}
                      ELSE le_get_components(world, <<"GameCharacter", "Active">>)
        fit == {c \in candidates : /\ "CanGetPregnant" \in world.components[c]
                                   /\ "Pregnant" \notin world.components[c]}
    IN IF fit # {} THEN fit ELSE {None}

\* GetPregnantLifeEvent._bind_other: the gameobjects it may return
_bind_other(world, initiator, candidate) ==
    IF /\ candidate # None
       /\ ~(candidate \in world.outgoing[initiator]
            /\ initiator \in world.outgoing[candidate])
    THEN {None}
    ELSE LET candidates == IF candidate # None THEN {candidate}
                           ELSE world.outgoing[initiator]
             matches == {c \in candidates : /\ "Active" \in world.components[c]
                                            /\ <<initiator, c>> \in world.dating}
         IN IF matches # {} THEN matches ELSE {None}

\* GetPregnantLifeEvent.instantiate(world, bindings): the events it may return
GetPregnantInstantiate(world, now, bindings) ==
    UNION {IF pregnant_one = None THEN {NoEvent}
           ELSE {IF other = None THEN NoEvent
                 ELSE LifeEvent("GetPregnant", now,
                                <<EventRole("PregnantOne", pregnant_one),
                                  EventRole("Other", other)>>) :
                     other \in _bind_other(world, pregnant_one,
                                           get_first_or_none(bindings, "Other"))} :
              pregnant_one \in _bind_pregnant_one(
                                   world, get_first_or_none(bindings, "Initiator"))}
GetPregnantRoles == {"PregnantOne", "Other"}

\* LifeEventLog.record_event that puts the event in front.
record_event_first(history, event) == <<event>> \o history
\* LifeEventLog.record_event (no subscriber is registered)
record_event(history, event) == Append(history, event)

\* LifeEvents.events() in the reverse order.
events_reversed(reg) == [i \in 1..Len(reg) |-> DictValues(reg)[Len(reg) + 1 - i]]
\* LifeEvents.events()
events(reg) == DictValues(reg)

\* LifeEventSimulator.try_execute_event from the state s of a tick: the states
\* it may leave. The last entry of s.tick is the attempt under way.
try_execute_event(s, world, now, et) ==
    {IF event # NoEvent
     THEN [history |-> record_event(s.history, event),
           executed |-> IF et.execute_fn THEN Append(s.executed, event)
                        ELSE s.executed,
           tick |-> [s.tick EXCEPT ![Len(s.tick)].steps =
                        @ \o <<"instantiate">>
                          \o (IF et.execute_fn THEN <<"execute_fn">> ELSE <<>>)
                          \o <<"record_event">>]]
     ELSE [s EXCEPT !.tick[Len(s.tick)].steps = Append(@, "instantiate")] :
         event \in instantiate(et, world, now, <<>>)}

\* One pass of the loop of process over an event type.
Attempt(s, world, now, et) ==
    LET drawn == [s EXCEPT !.tick = Append(@, [type |-> et.name,
                                               steps |-> <<"random">>])]
    IN UNION {IF draw < et.probability
              THEN try_execute_event(drawn, world, now, et)
              ELSE {drawn} : draw \in Draws}

\* The loop of process over LifeEvents.events() from entry i on, from the
\* states S.
RECURSIVE ProcessLoop(_, _, _, _, _)
ProcessLoop(S, world, now, types, i) ==
    IF i > Len(types) THEN S
    ELSE ProcessLoop(UNION {Attempt(s, world, now, LifeEventType(types[i])) : s \in S},
                     world, now, types, i + 1)

NoInst == [type |-> "", kwargs |-> <<>>, result |-> NoEvent, calls |-> <<>>]

\* A process that leaves next_trigger at the date of the tick.
next_trigger_same_date(now, interval) == now
\* self.next_trigger = date.copy() + self.interval
next_trigger_after(now, interval) == now + interval

\* LifeEventSimulator.process
process ==
    /\ leWorld # EmptyWorld
    /\ IF date < next_trigger
       THEN /\ lastTick' = <<>>
            /\ ticked' = "skipped"
            /\ UNCHANGED <<next_trigger, event_history, executed, lastAttempt>>
       ELSE /\ next_trigger' = next_trigger_after(date, Interval)
            /\ ticked' = "attempted"
            /\ lastAttempt' = date
            /\ \E s \in ProcessLoop({[history |-> event_history,
                                      executed |-> executed, tick |-> <<>>]},
                                    leWorld, date, events(registry), 1) :
                  /\ Len(s.history) <= MaxLog
                  /\ event_history' = s.history
                  /\ executed' = s.executed
                  /\ lastTick' = s.tick
    /\ lastInst' = NoInst
    /\ UNCHANGED <<leWorld, registry, date>>
    /\ UNCHANGED <<ecsVars, relVars, moreVars>>

\* LifeEvents.register(life_event_type), in a plugin's setup
register(n) ==
    /\ leWorld = EmptyWorld
    /\ registry' = DictSet(registry, LifeEventType(n).name, n)
    /\ registry' # registry
    /\ lastTick' = <<>>
    /\ ticked' = "none"
    /\ UNCHANGED lastAttempt
    /\ lastInst' = NoInst
    /\ UNCHANGED <<leWorld, date, next_trigger, event_history, executed>>
    /\ UNCHANGED <<ecsVars, relVars, moreVars>>

\* The simulation's setup populates the world.
populate(w) ==
    /\ leWorld = EmptyWorld
    /\ leWorld' = w
    /\ lastTick' = <<>>
    /\ ticked' = "none"
    /\ UNCHANGED lastAttempt
    /\ lastInst' = NoInst
    /\ UNCHANGED <<registry, date, next_trigger, event_history, executed>>
    /\ UNCHANGED <<ecsVars, relVars, moreVars>>

\* The time system advances the date.
advance_date ==
    /\ leWorld # EmptyWorld
    /\ date < MaxDate
    /\ date' = date + 1
    /\ lastTick' = <<>>
    /\ ticked' = "none"
    /\ UNCHANGED lastAttempt
    /\ lastInst' = NoInst
    /\ UNCHANGED <<leWorld, registry, next_trigger, event_history, executed>>
    /\ UNCHANGED <<ecsVars, relVars, moreVars>>

\* The bindings a caller supplies: none, or a gameobject for one role. A
\* direct call leaves the world as it is; the model records one at a time.
Bindings(names) == {<<>>} \cup {<<<<r, g>>>> : r \in names, g \in LEObjs}

\* A call of life_event_type.instantiate(world, **kwargs)
call_instantiate(n, kwargs) ==
    /\ leWorld # EmptyWorld
    /\ lastInst = NoInst
    /\ \E r \in InstantiateCalls(LifeEventType(n), leWorld,
                                  LifeEvent(n, date, <<>>), kwargs, 1, <<>>) :
           lastInst' = [type |-> n, kwargs |-> kwargs, result |-> r.event,
                        calls |-> r.calls]
    /\ lastTick' = <<>>
    /\ ticked' = "none"
    /\ UNCHANGED lastAttempt
    /\ UNCHANGED <<leWorld, registry, date, next_trigger, event_history, executed>>
    /\ UNCHANGED <<ecsVars, relVars, moreVars>>

\* A call of GetPregnantLifeEvent.instantiate(world, bindings)
call_GetPregnant_instantiate(bindings) ==
    /\ leWorld # EmptyWorld
    /\ lastInst = NoInst
    /\ \E event \in GetPregnantInstantiate(leWorld, date, bindings) :
           lastInst' = [type |-> "GetPregnant", kwargs |-> bindings, result |-> event,
                        calls |-> <<>>]
    /\ lastTick' = <<>>
    /\ ticked' = "none"
    /\ UNCHANGED lastAttempt
    /\ UNCHANGED <<leWorld, registry, date, next_trigger, event_history, executed>>
    /\ UNCHANGED <<ecsVars, relVars, moreVars>>

InitLife ==
    /\ leWorld = EmptyWorld
    /\ registry = <<>>
    /\ date = 0
    /\ next_trigger = 0
    /\ event_history = <<>>
    /\ executed = <<>>
    /\ lastTick = <<>>
    /\ lastInst = NoInst
    /\ ticked = "none"
    /\ lastAttempt = 0 - 1

NextLife ==
    \/ \E n \in LifeEventTypes : register(n)
    \/ \E w \in Worlds : populate(w)
    \/ advance_date
    \/ process
    \/ \E n \in LifeEventTypes : \E kwargs \in Bindings(RoleNames(n)) :
           call_instantiate(n, kwargs)
    \/ \E bindings \in Bindings(GetPregnantRoles \cup {"Initiator"}) :
           call_GetPregnant_instantiate(bindings)

\* ------------------------------------------------------------ determinism
\* The seeds a configuration may hold.
Seeds == {0, 1, 2}
\* random.Random: a generator whose state after seeding, and after each
\* draw, is a function of the state before. The modulus keeps it small.
RngModulus == 7
RngSeeded(seed) == seed % RngModulus
RngStep(state) == (3 * state + 1) % RngModulus
\* rng.random(): the value, in hundredths, and the state after the draw
rng_random(state) ==
    [value |-> <<0, 50, 99>>[(state % 3) + 1], state |-> RngStep(state)]
\* rng.choice(seq)
rng_choice(state, seq) ==
    [value |-> seq[(state % Len(seq)) + 1], state |-> RngStep(state)]

\* A generator seeded with something that differs from run to run.
SeedRngPerRun(seed, run) == RngSeeded(seed + run)
\* Neighborly.__init__: random.Random(self.config.seed)
SeedRng(seed, run) == RngSeeded(seed)

\* The ids of a set in the order a list built from it has: ascending.
RECURSIVE SortedSeq(_)
SortedSeq(S) ==
    IF S = {} THEN <<>>
    ELSE LET m == CHOOSE x \in S : \A y \in S : x <= y
         IN <<m>> \o SortedSeq(S \ {m})

\* EventRoleType.fill_role with the rng given: the role, the state of the
\* rng after it and the values drawn.
rng_fill_role(rt, world, event, state) ==
    LET roles == fill_role(rt, world, event) \ {NoRole}
        gids == SortedSeq({r.gid : r \in roles})
    IN IF roles = {} THEN [role |-> NoRole, state |-> state, drawn |-> <<>>]
       ELSE IF rt.binder_fn # "none"
            THEN [role |-> EventRole(rt.name, gids[1]), state |-> state,
                  drawn |-> <<>>]
            ELSE LET c == rng_choice(state, gids)
                 IN [role |-> EventRole(rt.name, c.value), state |-> c.state,
                     drawn |-> <<c.value>>]

\* AbstractLifeEventType.instantiate(world) with the rng given, from role i on
RECURSIVE RngInstantiateFrom(_, _, _, _, _, _)
RngInstantiateFrom(et, world, life_event, state, drawn, i) ==
    IF i > Len(et.roles)
    THEN [event |-> life_event, state |-> state, drawn |-> drawn]
    ELSE LET temp == rng_fill_role(et.roles[i], world, life_event, state)
         IN IF temp.role # NoRole
            THEN RngInstantiateFrom(et, world,
                                    [life_event EXCEPT !.roles = Append(@, temp.role)],
                                    temp.state, drawn \o temp.drawn, i + 1)
            ELSE [event |-> NoEvent, state |-> temp.state,
                  drawn |-> drawn \o temp.drawn]

\* The loop of LifeEventSimulator.process with the rng given, from entry i
\* of LifeEvents.events() on. r: the rng's state, the log, and the values
\* drawn and the events logged so far in this step.
RECURSIVE RngProcessLoop(_, _, _, _, _)
RngProcessLoop(r, world, now, types, i) ==
    IF i > Len(types) THEN r
    ELSE LET et == LifeEventType(types[i])
             gate == rng_random(r.state)
             inst == RngInstantiateFrom(et, world, LifeEvent(et.name, now, <<>>),
                                        gate.state, <<>>, 1)
             next ==
                 IF ~(gate.value < et.probability)
                 THEN [r EXCEPT !.state = gate.state,
                                !.drawn = Append(@, gate.value)]
                 ELSE IF inst.event = NoEvent
                 THEN [r EXCEPT !.state = inst.state,
                                !.drawn = Append(@, gate.value) \o inst.drawn]
                 ELSE [r EXCEPT !.state = inst.state,
                                !.drawn = Append(@, gate.value) \o inst.drawn,
                                !.history = record_event(@, inst.event),
                                !.logged = Append(@, inst.event)]
         IN RngProcessLoop(next, world, now, types, i + 1)

\* The orders in which a plugin may register life event types.
RegistrationOrders ==
    {o \in UNION {[1..n -> LifeEventTypes] : n \in 1..Cardinality(LifeEventTypes)} :
         \A i \in 1..Len(o), j \in 1..Len(o) : i # j => o[i] # o[j]}
\* LifeEvents.register for each type of the order, in turn
RECURSIVE RegisterAll(_, _, _)
RegisterAll(reg, o, i) ==
    IF i > Len(o) THEN reg
    ELSE RegisterAll(DictSet(reg, LifeEventType(o[i]).name, o[i]), o, i + 1)

NoConfig == [seed |-> 0, registry |-> <<>>, world |-> EmptyWorld]
Runs == {1, 2}

\* Neighborly(config), twice: each run seeds its own generator.
configure(seed, o, w) ==
    /\ config = NoConfig
    /\ config' = [seed |-> seed, registry |-> RegisterAll(<<>>, o, 1), world |-> w]
    /\ runs' = [r \in Runs |-> [state |-> SeedRng(seed, r), history |-> <<>>,
                                trace |-> <<>>]]
    /\ UNCHANGED <<ecsVars, relVars, lifeVars, simVars, extraVars>>

\* A step of one run: LifeEventSimulator.process (interval: the default,
\* no time), at the date of the step.
run_step(r) ==
    /\ config # NoConfig
    /\ Len(runs[r].trace) < MaxTicks
    /\ LET out == RngProcessLoop([state |-> runs[r].state,
                                  history |-> runs[r].history,
                                  drawn |-> <<>>, logged |-> <<>>],
                                 config.world, Len(runs[r].trace),
                                 events(config.registry), 1)
       IN runs' = [runs EXCEPT ![r] =
                      [state |-> out.state, history |-> out.history,
                       trace |-> Append(runs[r].trace,
                                        [drawn |-> out.drawn, logged |-> out.logged])]]
    /\ UNCHANGED config
    /\ UNCHANGED <<ecsVars, relVars, lifeVars, simVars, extraVars>>

InitDet ==
    /\ config = NoConfig
    /\ runs = [r \in Runs |-> [state |-> 0, history |-> <<>>, trace |-> <<>>]]

NextDet ==
    \/ \E seed \in Seeds, o \in RegistrationOrders, w \in Worlds : configure(seed, o, w)
    \/ \E r \in Runs : run_step(r)

\* --------------------------------------------------------------- scheduler
\* The system groups Neighborly.__init__ registers, and the systems.
TopGroups == <<"Initialization", "EarlyUpdate", "Update", "LateUpdate">>
Groups == {"Initialization", "EarlyUpdate", "Update", "LateUpdate",
           "StatusUpdate", "RelationshipUpdate"}
PluginSystems == {"PluginA", "PluginB"}
Root == "root"
\* add_system(system): the default priority
DefaultPriority == 0
\* A priority that puts the time system among the others.
TimePriorityDefault == DefaultPriority
\* add_system(systems.TimeSystem(), priority=-9999)
TimePriority == 0 - 9999

\* The calls of add_system in Neighborly.__init__ with the update groups in
\* another order.
RegistrationsUpdateFirst ==
    <<[system |-> "Initialization", priority |-> DefaultPriority, group |-> Root],
      [system |-> "Update", priority |-> DefaultPriority, group |-> Root],
      [system |-> "EarlyUpdate", priority |-> DefaultPriority, group |-> Root],
      [system |-> "LateUpdate", priority |-> DefaultPriority, group |-> Root],
      [system |-> "StatusUpdate", priority |-> DefaultPriority, group |-> "EarlyUpdate"],
      [system |-> "RelationshipUpdate", priority |-> DefaultPriority,
       group |-> "EarlyUpdate"],
      [system |-> "RandomLifeEvent", priority |-> DefaultPriority,
       group |-> "EarlyUpdate"],
      [system |-> "EvaluateSocialRules", priority |-> DefaultPriority,
       group |-> "RelationshipUpdate"],
      [system |-> "IncrementAge", priority |-> DefaultPriority, group |-> "Update"],
      [system |-> "ChildBirth", priority |-> DefaultPriority, group |-> "StatusUpdate"],
      [system |-> "Time", priority |-> TimePriority, group |-> Root]>>
\* The calls of add_system in Neighborly.__init__, in their order: the
\* top-level groups, the subgroups of early-update, then systems of each
\* group, and the time system last.
DefaultRegistrations ==
    <<[system |-> "Initialization", priority |-> DefaultPriority, group |-> Root],
      [system |-> "EarlyUpdate", priority |-> DefaultPriority, group |-> Root],
      [system |-> "Update", priority |-> DefaultPriority, group |-> Root],
      [system |-> "LateUpdate", priority |-> DefaultPriority, group |-> Root],
      [system |-> "StatusUpdate", priority |-> DefaultPriority, group |-> "EarlyUpdate"],
      [system |-> "RelationshipUpdate", priority |-> DefaultPriority,
       group |-> "EarlyUpdate"],
      [system |-> "RandomLifeEvent", priority |-> DefaultPriority,
       group |-> "EarlyUpdate"],
      [system |-> "EvaluateSocialRules", priority |-> DefaultPriority,
       group |-> "RelationshipUpdate"],
      [system |-> "IncrementAge", priority |-> DefaultPriority, group |-> "Update"],
      [system |-> "ChildBirth", priority |-> DefaultPriority, group |-> "StatusUpdate"],
      [system |-> "Time", priority |-> TimePriority, group |-> Root]>>

\* SystemGroup.add_child that appends whatever the priority.
SystemGroup_add_child_appending(list, priority, system) ==
    Append(list, [priority |-> priority, system |-> system])
\* SystemGroup.add_child: the children are kept by descending priority, a new
\* child after those of its priority already there.
SystemGroup_add_child(list, priority, system) ==
    LET before == SelectSeq(list, LAMBDA c : c.priority >= priority)
        after == SelectSeq(list, LAMBDA c : c.priority < priority)
    IN before \o <<[priority |-> priority, system |-> system]>> \o after

\* SystemManager.add_system(system, priority, system_group)
AddSystem(tree, reg) ==
    [tree EXCEPT ![reg.group] = SystemGroup_add_child(@, reg.priority, reg.system)]

RECURSIVE AddSystems(_, _, _)
AddSystems(tree, regs, i) ==
    IF i > Len(regs) THEN tree
    ELSE AddSystems(AddSystem(tree, regs[i]), regs, i + 1)

\* SystemGroup.on_update: the systems a group runs, its children in their
\* order and each subgroup in depth.
RECURSIVE RunOrderOf(_, _, _)
RunOrderOf(tree, list, i) ==
    IF i > Len(list) THEN <<>>
    ELSE (IF list[i].system \in Groups
          THEN RunOrderOf(tree, tree[list[i].system], 1)
          ELSE <<list[i].system>>)
         \o RunOrderOf(tree, list, i + 1)
\* What a step runs, in order.
RunOrder(tree) == RunOrderOf(tree, tree[Root], 1)

\* -------------------------------------------------------------- event bus
EventTypes == {"Death", "Birth"}
\* The listeners; one of them raises when it is called.
Listeners == {"history", "log", "faulty"}
Raises(l) == l = "faulty"
NoDispatch == [event |-> "none", invoked |-> <<>>, raised |-> FALSE]

\* EventManager.on_event(event_type, listener)
on_event(typed, type, l) == [typed EXCEPT ![type] = Append(@, l)]
\* subscribe that puts the listener in front.
subscribe_first(subs, cb) == <<cb>> \o subs
\* LifeEventLog.subscribe
subscribe(subs, cb) == Append(subs, cb)
\* LifeEventLog.unsubscribe: list.remove takes out the first occurrence
unsubscribe(subs, cb) ==
    LET k == CHOOSE i \in 1..Len(subs) :
                 subs[i] = cb /\ \A j \in 1..(i - 1) : subs[j] # cb
    IN SubSeq(subs, 1, k - 1) \o SubSeq(subs, k + 1, Len(subs))

\* A loop over the listeners that goes on after one raised.
NotifyCatching(list) == [invoked |-> list, raised |-> FALSE]
\* for cb in self._subscribers: cb(event) -- the listeners called, and
\* whether one raised: the exception ends the loop.
Notify(list) ==
    LET bad == {i \in 1..Len(list) : Raises(list[i])}
    IN IF bad = {} THEN [invoked |-> list, raised |-> FALSE]
       ELSE [invoked |-> SubSeq(list, 1, CHOOSE i \in bad : \A j \in bad : i <= j),
             raised |-> TRUE]

Via(list, kind) == [i \in 1..Len(list) |-> [listener |-> list[i], via |-> kind]]

\* dispatch(event): the listeners of the event's type, then the any-event
\* listeners
dispatch(typed, subs, e) ==
    LET t == Notify(typed[e])
        a == Notify(subs)
    IN IF t.raised
       THEN [event |-> e, invoked |-> Via(t.invoked, "typed"), raised |-> TRUE]
       ELSE [event |-> e,
             invoked |-> Via(t.invoked, "typed") \o Via(a.invoked, "any"),
             raised |-> a.raised]

\* ------------------------------------------------------------------ driver
NoDriver == [call |-> "none", n |-> 0, date0 |-> 0, status |-> "idle"]

\* A plugin's setup: add_system(system, priority, system_group)
add_system(sys, priority, group) ==
    /\ started = 0
    /\ driver = NoDriver
    /\ \A g \in Groups \cup {Root} : \A i \in 1..Len(children[g]) :
           children[g][i].system # sys
    /\ children' = AddSystem(children,
                             [system |-> sys, priority |-> priority, group |-> group])
    /\ added' = Append(added, [system |-> sys, priority |-> priority, group |-> group])
    /\ UNCHANGED <<typedListeners, subscribers, registrations, simPc, ran, simDate,
                   started, driver, dispatched>>
    /\ UNCHANGED <<ecsVars, relVars, lifeVars, detVars, extraVars>>

\* event_manager.on_event(event_type, listener)
sim_on_event(type, l) ==
    /\ started = 0
    /\ driver = NoDriver
    /\ Len(registrations) < MaxListeners
    /\ typedListeners' = on_event(typedListeners, type, l)
    /\ registrations' = Append(registrations, [kind |-> type, listener |-> l])
    /\ UNCHANGED <<children, added, subscribers, simPc, ran, simDate, started, driver,
                   dispatched>>
    /\ UNCHANGED <<ecsVars, relVars, lifeVars, detVars, extraVars>>

\* event_manager.on_any_event(listener) / LifeEventLog.subscribe(cb)
sim_subscribe(l) ==
    /\ started = 0
    /\ driver = NoDriver
    /\ Len(registrations) < MaxListeners
    /\ subscribers' = subscribe(subscribers, l)
    /\ registrations' = Append(registrations, [kind |-> "any", listener |-> l])
    /\ UNCHANGED <<children, added, typedListeners, simPc, ran, simDate, started, driver,
                   dispatched>>
    /\ UNCHANGED <<ecsVars, relVars, lifeVars, detVars, extraVars>>

\* LifeEventLog.unsubscribe(cb), of a listener that is subscribed
sim_unsubscribe(l) ==
    /\ started = 0
    /\ driver = NoDriver
    /\ InSeq(l, subscribers)
    /\ subscribers' = unsubscribe(subscribers, l)
    /\ registrations' = unsubscribe(registrations, [kind |-> "any", listener |-> l])
    /\ UNCHANGED <<children, added, typedListeners, simPc, ran, simDate, started, driver,
                   dispatched>>
    /\ UNCHANGED <<ecsVars, relVars, lifeVars, detVars, extraVars>>

\* Neighborly.run_for(years) is called
call_run_for(n) ==
    /\ driver.status # "running"
    /\ started + n <= MaxSteps
    /\ driver' = [call |-> "run_for", n |-> n, date0 |-> simDate, status |-> "running"]
    /\ ran' = <<>>
    /\ UNCHANGED <<children, added, typedListeners, subscribers, registrations, simPc,
                   simDate, started, dispatched>>
    /\ UNCHANGED <<ecsVars, relVars, lifeVars, detVars, extraVars>>

\* Neighborly.step() is called
call_step ==
    /\ driver.status # "running"
    /\ started < MaxSteps
    /\ driver' = [call |-> "step", n |-> 1, date0 |-> simDate, status |-> "running"]
    /\ ran' = <<>>
    /\ UNCHANGED <<children, added, typedListeners, subscribers, registrations, simPc,
                   simDate, started, dispatched>>
    /\ UNCHANGED <<ecsVars, relVars, lifeVars, detVars, extraVars>>

\* step() begins: the systems are about to run
begin_step ==
    /\ driver.status = "running"
    /\ simPc = 0
    /\ simPc' = 1
    /\ ran' = <<>>
    /\ started' = started + 1
    /\ dispatched' = NoDispatch
    /\ UNCHANGED <<children, added, typedListeners, subscribers, registrations, simDate,
                   driver>>
    /\ UNCHANGED <<ecsVars, relVars, lifeVars, detVars, extraVars>>

\* The next system of the step runs. The life event system may dispatch an
\* event; the time system advances the date. An exception a listener raises
\* leaves step() and run_for(); after the last system step() returns, and
\* run_for() after the last step.
run_system ==
    /\ simPc >= 1
    /\ LET order == RunOrder(children)
           name == order[simPc]
           last == simPc = Len(order)
       IN \E e \in (IF name = "RandomLifeEvent" THEN EventTypes \cup {"none"}
                    ELSE {"none"}) :
           LET d == IF e = "none" THEN dispatched
                    ELSE dispatch(typedListeners, subscribers, e)
               returns == last /\ simDate + (IF name = "Time" THEN 1 ELSE 0)
                                     = driver.date0 + driver.n
           IN /\ ran' = Append(ran, [system |-> name, date |-> simDate])
              /\ dispatched' = d
              /\ IF e # "none" /\ d.raised
                 THEN /\ simPc' = 0
                      /\ driver' = [driver EXCEPT !.status = "raised"]
                      /\ UNCHANGED simDate
                 ELSE /\ simDate' = IF name = "Time" THEN simDate + 1 ELSE simDate
                      /\ simPc' = IF last THEN 0 ELSE simPc + 1
                      /\ driver' = IF returns
                                   THEN [driver EXCEPT !.status = "returned"]
                                   ELSE driver
    /\ UNCHANGED <<children, added, typedListeners, subscribers, registrations, started>>
    /\ UNCHANGED <<ecsVars, relVars, lifeVars, detVars, extraVars>>

\* KeyboardInterrupt while run_for runs: raised wherever the run is, caught
\* by run_for, which returns.
interrupt ==
    /\ driver.call = "run_for"
    /\ driver.status = "running"
    /\ driver' = [driver EXCEPT !.status = "interrupted"]
    /\ simPc' = 0
    /\ UNCHANGED <<children, added, typedListeners, subscribers, registrations, ran,
                   simDate, started, dispatched>>
    /\ UNCHANGED <<ecsVars, relVars, lifeVars, detVars, extraVars>>

InitSim ==
    /\ children = AddSystems([g \in Groups \cup {Root} |-> <<>>],
                             DefaultRegistrations, 1)
    /\ added = <<>>
    /\ typedListeners = [t \in EventTypes |-> <<>>]
    /\ subscribers = <<>>
    /\ registrations = <<>>
    /\ simPc = 0
    /\ ran = <<>>
    /\ simDate = 0
    /\ started = 0
    /\ driver = NoDriver
    /\ dispatched = NoDispatch

\* The groups a plugin adds its systems to, and the priorities it gives.
PluginGroups == {Root, "StatusUpdate", "LateUpdate"}
PluginPriorities == {0 - 1, 1}

NextDriver ==
    \/ \E n \in 1..MaxSteps : call_run_for(n)
    \/ call_step
    \/ begin_step
    \/ run_system
    \/ interrupt

NextSched ==
    \/ \E sys \in PluginSystems, p \in PluginPriorities, g \in PluginGroups :
           add_system(sys, p, g)
    \/ NextDriver

NextBus ==
    \/ \E t \in EventTypes, l \in Listeners : sim_on_event(t, l)
    \/ \E l \in Listeners : sim_subscribe(l)
    \/ \E l \in Listeners : sim_unsubscribe(l)
    \/ NextDriver

\* ----------------------------------------------------------------- lookups
MaxLookupObjects == 2
LkIds == 1..MaxLookupObjects
NoLkCall == [op |-> "none", gid |-> 0, type |-> "none", cs |-> <<>>, raised |-> "none",
             value |-> None, hooks |-> <<>>]
LkCall(op, gid, type, r) ==
    [op |-> op, gid |-> gid, type |-> type, cs |-> <<>>, raised |-> r.raised,
     value |-> r.value, hooks |-> r.hooks]
\* A hook of a component runs: which one, of which component, and whether
\* the gameobject's components hold that component at that moment.
Hook(name, comps, type, inst) ==
    [hook |-> name, type |-> type, inst |-> inst,
     attached |-> DictHas(comps, type) /\ DictGet(comps, type) = inst]

\* World.get_gameobject(gid): self._gameobjects[gid], KeyError turned into
\* GameObjectNotFoundError
get_gameobject(objs, gid) ==
    IF DictHas(objs, gid)
    THEN [raised |-> "none", value |-> gid, hooks |-> <<>>]
    ELSE [raised |-> "GameObjectNotFoundError", value |-> None, hooks |-> <<>>]
\* World.try_gameobject(gid): self._gameobjects.get(gid)
try_gameobject(objs, gid) ==
    [raised |-> "none", value |-> IF DictHas(objs, gid) THEN gid ELSE None,
     hooks |-> <<>>]
\* GameObject.get_component(component_type)
get_component_of(comps, t) ==
    IF DictHas(comps, t)
    THEN [raised |-> "none", value |-> DictGet(comps, t), hooks |-> <<>>]
    ELSE [raised |-> "ComponentNotFoundError", value |-> None, hooks |-> <<>>]
\* GameObject.try_component(component_type): self._components.get(type)
try_component(comps, t) ==
    [raised |-> "none", value |-> IF DictHas(comps, t) THEN DictGet(comps, t) ELSE None,
     hooks |-> <<>>]
\* A remove_component that passes over a type the gameobject does not hold.
remove_component_silently(comps, t) ==
    IF DictHas(comps, t)
    THEN [raised |-> "none", value |-> None,
          hooks |-> <<Hook("on_remove", comps, t, DictGet(comps, t))>>,
          comps |-> DictDel(comps, t)]
    ELSE [raised |-> "none", value |-> None, hooks |-> <<>>, comps |-> comps]
\* A remove_component that deletes the component and then calls on_remove.
remove_component_delete_first(comps, t) ==
    IF DictHas(comps, t)
    THEN [raised |-> "none", value |-> None,
          hooks |-> <<Hook("on_remove", DictDel(comps, t), t, DictGet(comps, t))>>,
          comps |-> DictDel(comps, t)]
    ELSE [raised |-> "ComponentNotFoundError", value |-> None, hooks |-> <<>>,
          comps |-> comps]
\* GameObject.remove_component(component_type): the lookup raises before
\* on_remove is called and before the component is deleted.
remove_component_of(comps, t) ==
    IF DictHas(comps, t)
    THEN [raised |-> "none", value |-> None,
          hooks |-> <<Hook("on_remove", comps, t, DictGet(comps, t))>>,
          comps |-> DictDel(comps, t)]
    ELSE [raised |-> "ComponentNotFoundError", value |-> None, hooks |-> <<>>,
          comps |-> comps]

\* An add_component that does not call the hook.
add_component_no_hook(comps, c) ==
    [comps |-> StoreComponent(comps, c), hooks |-> <<>>]
\* GameObject.add_component(component): the component is stored, then its
\* on_add runs.
add_component_of(comps, c) ==
    [comps |-> StoreComponent(comps, c),
     hooks |-> <<Hook("on_add", StoreComponent(comps, c), c.type, c.inst)>>]
\* GameObject.__init__: for component in components: self.add_component
RECURSIVE AddComponents(_, _, _)
AddComponents(r, cs, i) ==
    IF i > Len(cs) THEN r
    ELSE LET a == add_component_of(r.comps, cs[i])
         IN AddComponents([comps |-> a.comps, hooks |-> r.hooks \o a.hooks], cs, i + 1)

\* A remove_on_archive that is set on every component type.
remove_on_archive_all(t) == TRUE
\* Component.remove_on_archive of each component type: the class of A sets
\* it, the class of B keeps the default, False.
remove_on_archive(t) == t = "A"

\* The second loop of archive, over the reversed list of components.
RECURSIVE ArchiveLoop(_, _, _)
ArchiveLoop(r, reversed, i) ==
    IF i > Len(reversed) \/ r.raised # "none" THEN r
    ELSE IF remove_on_archive(reversed[i][1])
         THEN LET rm == remove_component_of(r.comps, reversed[i][1])
              IN ArchiveLoop([r EXCEPT !.comps = rm.comps, !.raised = rm.raised,
                                       !.hooks = @ \o rm.hooks],
                             reversed, i + 1)
         ELSE ArchiveLoop(r, reversed, i + 1)
\* GameObject.archive(): on_archive of each component, then remove_component
\* of the components to remove, last one first.
archive(comps) ==
    ArchiveLoop([raised |-> "none", value |-> None, comps |-> comps,
                 hooks |-> [i \in 1..Len(comps) |->
                               Hook("on_archive", comps, comps[i][1], comps[i][2])]],
                [i \in 1..Len(comps) |-> comps[Len(comps) + 1 - i]], 1)

\* World.spawn_gameobject(components) in the world of the lookups
lk_spawn_gameobject(cs) ==
    /\ Len(lkObjects) < MaxLookupObjects
    /\ LET r == AddComponents([comps |-> <<>>, hooks |-> <<>>], cs, 1) IN
       /\ lkObjects' = DictSet(lkObjects, Len(lkObjects) + 1, r.comps)
       /\ lkCall' = [NoLkCall EXCEPT !.op = "spawn_gameobject",
                                     !.gid = Len(lkObjects) + 1,
                                     !.cs = cs, !.hooks = r.hooks]
    /\ UNCHANGED <<coreVars, qVars, hVars, laterVars>>

\* GameObject.add_component(component)
lk_add_component(g, c) ==
    /\ DictHas(lkObjects, g)
    /\ LET r == add_component_of(DictGet(lkObjects, g), c) IN
       /\ lkObjects' = DictSet(lkObjects, g, r.comps)
       /\ lkCall' = [NoLkCall EXCEPT !.op = "add_component", !.gid = g,
                                     !.type = c.type, !.cs = <<c>>, !.hooks = r.hooks]
    /\ UNCHANGED <<coreVars, qVars, hVars, laterVars>>

\* world.get_gameobject(gid)
call_get_gameobject(gid) ==
    /\ lkCall' = LkCall("get_gameobject", gid, "none", get_gameobject(lkObjects, gid))
    /\ UNCHANGED lkObjects
    /\ UNCHANGED <<coreVars, qVars, hVars, laterVars>>

\* world.try_gameobject(gid)
call_try_gameobject(gid) ==
    /\ lkCall' = LkCall("try_gameobject", gid, "none", try_gameobject(lkObjects, gid))
    /\ UNCHANGED lkObjects
    /\ UNCHANGED <<coreVars, qVars, hVars, laterVars>>

\* gameobject.get_component(component_type)
call_get_component(g, t) ==
    /\ DictHas(lkObjects, g)
    /\ lkCall' = LkCall("get_component", g, t, get_component_of(DictGet(lkObjects, g), t))
    /\ UNCHANGED lkObjects
    /\ UNCHANGED <<coreVars, qVars, hVars, laterVars>>

\* gameobject.try_component(component_type)
call_try_component(g, t) ==
    /\ DictHas(lkObjects, g)
    /\ lkCall' = LkCall("try_component", g, t, try_component(DictGet(lkObjects, g), t))
    /\ UNCHANGED lkObjects
    /\ UNCHANGED <<coreVars, qVars, hVars, laterVars>>

\* gameobject.remove_component(component_type)
call_remove_component(g, t) ==
    /\ DictHas(lkObjects, g)
    /\ LET r == remove_component_of(DictGet(lkObjects, g), t) IN
       /\ lkObjects' = DictSet(lkObjects, g, r.comps)
       /\ lkCall' = LkCall("remove_component", g, t, r)
    /\ UNCHANGED <<coreVars, qVars, hVars, laterVars>>

\* gameobject.archive()
call_archive(g) ==
    /\ DictHas(lkObjects, g)
    /\ LET comps == DictGet(lkObjects, g)
           r == archive(comps)
       IN /\ lkObjects' = DictSet(lkObjects, g, r.comps)
          /\ lkCall' = [LkCall("archive", g, "none", r) EXCEPT
                            !.cs = [i \in 1..Len(comps) |->
                                       [type |-> comps[i][1], inst |-> comps[i][2]]]]
    /\ UNCHANGED <<coreVars, qVars, hVars, laterVars>>

InitLookup ==
    /\ lkObjects = <<>>
    /\ lkCall = NoLkCall

NextLookup ==
    \/ \E cs \in SpawnLists : lk_spawn_gameobject(cs)
    \/ \E g \in LkIds, c \in Components : lk_add_component(g, c)
    \/ \E g \in LkIds : call_get_gameobject(g)
    \/ \E g \in LkIds : call_try_gameobject(g)
    \/ \E g \in LkIds, t \in Types : call_get_component(g, t)
    \/ \E g \in LkIds, t \in Types : call_try_component(g, t)
    \/ \E g \in LkIds, t \in Types : call_remove_component(g, t)
    \/ \E g \in LkIds : call_archive(g)

\* ----------------------------------------------------------------- queries
MaxQueryObjects == 8
\* The slots of the hash table of a Python set: 8 for a set that never held
\* more than 4 elements, 32 once a fifth was added.
SetMinSize == 8
SetSmallMax == 4
SetGrownSize == 32
SetTableSize(S) == IF Cardinality(S) <= SetSmallMax THEN SetMinSize ELSE SetGrownSize
\* The slot of an int in the table: its hash, the int itself, modulo the size.
SetSlot(S, e) == e % SetTableSize(S)
\* Iterating a set of ints walks the table slot by slot.
RECURSIVE SetIter(_, _)
SetIter(S, rest) ==
    IF rest = {} THEN <<>>
    ELSE LET e == CHOOSE x \in rest : \A y \in rest :
                      \/ SetSlot(S, x) < SetSlot(S, y)
                      \/ SetSlot(S, x) = SetSlot(S, y) /\ x <= y
         IN <<e>> \o SetIter(S, rest \ {e})
\* The types of the queries, and the component types a spawn attaches.
QueryTypes == {{"A"}, {"B"}, {"A", "B"}}
QuerySpawnLists == {<<>>, <<"A">>, <<"A", "B">>}
NoQuery == [op |-> "none", types |-> {}, ids |-> <<>>]

\* esper get_components(*types): iterates set.intersection of the types' sets
\* (get_component: the type's set itself)
get_components(idx, ts) ==
    LET S == {e \in 1..MaxQueryObjects : \A t \in ts : e \in idx[t]}
    IN SetIter(S, S)
\* World.get_gameobjects(): list(self._gameobjects.values())
get_gameobjects(objs) == objs

\* World.spawn_gameobject(components) in the world of the queries
q_spawn_gameobject(cs) ==
    /\ qNextId < MaxQueryObjects
    /\ qNextId' = qNextId + 1
    /\ qGameobjects' = Append(qGameobjects, qNextId + 1)
    /\ qComponents' = [t \in Types |->
                          IF InSeq(t, cs) THEN qComponents[t] \cup {qNextId + 1}
                          ELSE qComponents[t]]
    /\ qResult' = NoQuery
    /\ UNCHANGED <<coreVars, lkVars, hVars, laterVars>>

\* world.get_component(type) / world.get_components(*types)
call_get_components(ts) ==
    /\ qResult' = [op |-> "get_components", types |-> ts,
                   ids |-> get_components(qComponents, ts)]
    /\ UNCHANGED <<qGameobjects, qComponents, qNextId>>
    /\ UNCHANGED <<coreVars, lkVars, hVars, laterVars>>

\* world.get_gameobjects()
call_get_gameobjects ==
    /\ qResult' = [op |-> "get_gameobjects", types |-> {},
                   ids |-> get_gameobjects(qGameobjects)]
    /\ UNCHANGED <<qGameobjects, qComponents, qNextId>>
    /\ UNCHANGED <<coreVars, lkVars, hVars, laterVars>>

InitQuery ==
    /\ qGameobjects = <<>>
    /\ qComponents = [t \in Types |-> {}]
    /\ qNextId = 0
    /\ qResult = NoQuery

NextQuery ==
    \/ \E cs \in QuerySpawnLists : q_spawn_gameobject(cs)
    \/ \E ts \in QueryTypes : call_get_components(ts)
    \/ call_get_gameobjects

\* --------------------------------------------------------------- hierarchy
MaxTreeObjects == 3
MaxTreeDead == 1
TreeIds == 1..MaxTreeObjects
NoHCall == [op |-> "none", p |-> None, c |-> None, from |-> None]

\* GameObject.remove_child(gameobject)
remove_child(h, p, c) ==
    [parent |-> [h.parent EXCEPT ![c] = None],
     children |-> [h.children EXCEPT ![p] = RemoveAll(@, c)]]
\* An add_child that leaves the child in the list of its former parent.
add_child_keeping(h, p, c) ==
    [parent |-> [h.parent EXCEPT ![c] = p],
     children |-> [h.children EXCEPT ![p] = Append(RemoveAll(@, c), c)]]
\* GameObject.add_child(gameobject): a child that has a parent leaves it
\* first
add_child(h, p, c) ==
    LET h1 == IF h.parent[c] # None THEN remove_child(h, h.parent[c], c) ELSE h
    IN [parent |-> [h1.parent EXCEPT ![c] = p],
        children |-> [h1.children EXCEPT ![p] = Append(@, c)]]

\* g is p or above p.
RECURSIVE IsAncestorOrSelf(_, _, _)
IsAncestorOrSelf(h, g, p) ==
    \/ g = p
    \/ h.parent[p] # None /\ IsAncestorOrSelf(h, g, h.parent[p])

\* Destroying a gameobject without its children.
DestroyOrderShallow(h, g) == <<g>>
\* The gameobjects the removal of g removes, in order: the children, each
\* with its own children before it, then g.
RECURSIVE DestroyOrder(_, _)
RECURSIVE DestroyOrderOfAll(_, _, _)
DestroyOrderOfAll(h, list, i) ==
    IF i > Len(list) THEN <<>>
    ELSE DestroyOrder(h, list[i]) \o DestroyOrderOfAll(h, list, i + 1)
DestroyOrder(h, g) == Append(DestroyOrderOfAll(h, h.children[g], 1), g)

\* Removing one gameobject: it leaves the children of its parent.
Detach(h, g) ==
    IF h.parent[g] # None THEN remove_child(h, h.parent[g], g) ELSE h

RECURSIVE DetachAll(_, _, _)
DetachAll(h, order, i) ==
    IF i > Len(order) THEN h ELSE DetachAll(Detach(h, order[i]), order, i + 1)

\* The gameobjects removed, each with the parent it had.
Removals(h, order) ==
    [k \in 1..Len(order) |-> [id |-> order[k], parent |-> h.parent[order[k]]]]

\* The purge at the start of a step, from the i-th queued gameobject on: a
\* gameobject still in the world is removed after its descendants.
RECURSIVE PurgeLoop(_, _)
PurgeLoop(w, i) ==
    IF i > Len(w.dead) THEN [w EXCEPT !.dead = <<>>]
    ELSE LET g == w.dead[i] IN
         IF g \notin w.gameobjects THEN PurgeLoop(w, i + 1)
         ELSE LET order == DestroyOrder(w.hierarchy, g) IN
              PurgeLoop([w EXCEPT !.gameobjects = @ \ {order[k] : k \in 1..Len(order)},
                                  !.hierarchy = DetachAll(@, order, 1),
                                  !.removed = @ \o Removals(w.hierarchy, order)],
                        i + 1)

\* World.spawn_gameobject() in the world of the hierarchy
h_spawn_gameobject ==
    /\ hNextId < MaxTreeObjects
    /\ hNextId' = hNextId + 1
    /\ hGameobjects' = hGameobjects \cup {hNextId + 1}
    /\ hRemoved' = <<>>
    /\ hCall' = NoHCall
    /\ UNCHANGED <<hierarchy, hDead>>
    /\ UNCHANGED <<coreVars, lkVars, qVars, laterVars>>

\* p.add_child(c), of two gameobjects of the world, c not p nor above p
call_add_child(p, c) ==
    /\ p \in hGameobjects
    /\ c \in hGameobjects
    /\ ~IsAncestorOrSelf(hierarchy, c, p)
    /\ hierarchy' = add_child(hierarchy, p, c)
    /\ hRemoved' = <<>>
    /\ hCall' = [op |-> "add_child", p |-> p, c |-> c, from |-> hierarchy.parent[c]]
    /\ UNCHANGED <<hGameobjects, hNextId, hDead>>
    /\ UNCHANGED <<coreVars, lkVars, qVars, laterVars>>

\* p.remove_child(c), of a child of p
call_remove_child(p, c) ==
    /\ p \in hGameobjects
    /\ InSeq(c, hierarchy.children[p])
    /\ hierarchy' = remove_child(hierarchy, p, c)
    /\ hRemoved' = <<>>
    /\ hCall' = [op |-> "remove_child", p |-> p, c |-> c, from |-> p]
    /\ UNCHANGED <<hGameobjects, hNextId, hDead>>
    /\ UNCHANGED <<coreVars, lkVars, qVars, laterVars>>

\* destroy_gameobject(g)
h_destroy_gameobject(g) ==
    /\ g \in hGameobjects
    /\ Len(hDead) < MaxTreeDead
    /\ hDead' = Append(hDead, g)
    /\ hRemoved' = <<>>
    /\ hCall' = NoHCall
    /\ UNCHANGED <<hGameobjects, hNextId, hierarchy>>
    /\ UNCHANGED <<coreVars, lkVars, qVars, laterVars>>

\* world.step(): the queued gameobjects are removed
h_step ==
    /\ LET w == PurgeLoop([gameobjects |-> hGameobjects, hierarchy |-> hierarchy,
                           dead |-> hDead, removed |-> <<>>], 1)
       IN /\ hGameobjects' = w.gameobjects
          /\ hierarchy' = w.hierarchy
          /\ hDead' = w.dead
          /\ hRemoved' = w.removed
    /\ hCall' = NoHCall
    /\ UNCHANGED hNextId
    /\ UNCHANGED <<coreVars, lkVars, qVars, laterVars>>

InitTree ==
    /\ hGameobjects = {}
    /\ hNextId = 0
    /\ hierarchy = [parent |-> [g \in TreeIds |-> None],
                    children |-> [g \in TreeIds |-> <<>>]]
    /\ hDead = <<>>
    /\ hRemoved = <<>>
    /\ hCall = NoHCall

NextTree ==
    \/ h_spawn_gameobject
    \/ \E p \in TreeIds, c \in TreeIds : call_add_child(p, c)
    \/ \E p \in TreeIds, c \in TreeIds : call_remove_child(p, c)
    \/ \E g \in TreeIds : h_destroy_gameobject(g)
    \/ h_step

\* --------------------------------------------------------------- resources
ResourceTypes == {"R", "S"}
ResourceInsts == {1, 2}
NoRsCall == [op |-> "none", type |-> "none", inst |-> None, raised |-> "none",
             value |-> None, warned |-> FALSE]

\* An add_resource that keeps the resource already registered under the type.
add_resource_keeping(res, t, r) == IF DictHas(res, t) THEN res ELSE DictSet(res, t, r)
\* World.add_resource(resource): self._resources[type(resource)] = resource
add_resource(res, t, r) == DictSet(res, t, r)
\* A remove_resource that passes over a type that is not registered.
remove_resource_silently(res, t) == [raised |-> "none", res |-> DictDel(res, t)]
\* World.remove_resource(resource_type)
remove_resource(res, t) ==
    IF DictHas(res, t) THEN [raised |-> "none", res |-> DictDel(res, t)]
    ELSE [raised |-> "ResourceNotFoundError", res |-> res]
\* World.get_resource(resource_type)
get_resource(res, t) ==
    IF DictHas(res, t) THEN [raised |-> "none", value |-> DictGet(res, t)]
    ELSE [raised |-> "ResourceNotFoundError", value |-> None]
\* World.has_resource(resource_type)
has_resource(res, t) == DictHas(res, t)
\* World.try_resource(resource_type): self._resources.get(resource_type)
try_resource(res, t) == IF DictHas(res, t) THEN DictGet(res, t) ELSE None
\* World.get_all_resources()
get_all_resources(res) == DictValues(res)

call_add_resource(t, r) ==
    /\ resources' = add_resource(resources, t, r)
    /\ rsCall' = [NoRsCall EXCEPT !.op = "add_resource", !.type = t, !.inst = r,
                                 !.warned = has_resource(resources, t)]
    /\ UNCHANGED rsRest

call_remove_resource(t) ==
    /\ LET r == remove_resource(resources, t) IN
       /\ resources' = r.res
       /\ rsCall' = [NoRsCall EXCEPT !.op = "remove_resource", !.type = t,
                                    !.raised = r.raised]
    /\ UNCHANGED rsRest

call_get_resource(t) ==
    /\ LET r == get_resource(resources, t) IN
       rsCall' = [NoRsCall EXCEPT !.op = "get_resource", !.type = t,
                                 !.raised = r.raised, !.value = r.value]
    /\ UNCHANGED resources
    /\ UNCHANGED rsRest

call_try_resource(t) ==
    /\ rsCall' = [NoRsCall EXCEPT !.op = "try_resource", !.type = t,
                                 !.value = try_resource(resources, t)]
    /\ UNCHANGED resources
    /\ UNCHANGED rsRest

call_has_resource(t) ==
    /\ rsCall' = [NoRsCall EXCEPT !.op = "has_resource", !.type = t,
                                 !.value = IF has_resource(resources, t) THEN 1 ELSE 0]
    /\ UNCHANGED resources
    /\ UNCHANGED rsRest

InitResources ==
    /\ resources = <<>>
    /\ rsCall = NoRsCall

NextResources ==
    \/ \E t \in ResourceTypes, r \in ResourceInsts : call_add_resource(t, r)
    \/ \E t \in ResourceTypes : call_remove_resource(t)
    \/ \E t \in ResourceTypes : call_get_resource(t)
    \/ \E t \in ResourceTypes : call_try_resource(t)
    \/ \E t \in ResourceTypes : call_has_resource(t)

\* ----------------------------------------------------------------- systems
\* Bounds of the systems: the systems constructed, the updates counted.
MaxSystems == 2
MaxUpdates == 2
MaxSetups == 2
MaxArchObjects == 3
MaxArchDead == 3
MaxSchoolIds == 8
MaxSchools == 2
MaxPupils == 1
MaxYears == 1
MaxObituaries == 2
MaxAge == 2
MaxEventLog == 3
SystemTypes == {"SalarySystem", "OtherSystem"}
SystemIds == 1..MaxSystems
Priorities == {0, 1}
NoSysCall == [op |-> "none", type |-> "none", value |-> None, ran |-> <<>>]

\* list.sort(key=priority, reverse=True) after an append: the sort is stable,
\* so the new entry goes behind the entries of its priority or higher.
RECURSIVE InsertByPriority(_, _, _)
InsertByPriority(procs, p, i) ==
    IF i > Len(procs) THEN Append(procs, p)
    ELSE IF procs[i].priority < p.priority
         THEN SubSeq(procs, 1, i - 1) \o <<p>> \o SubSeq(procs, i, Len(procs))
         ELSE InsertByPriority(procs, p, i + 1)
\* esper's add_processor(processor_instance, priority)
add_processor(procs, p) == InsertByPriority(procs, p, 1)

\* The loop of esper's remove_processor: it removes from the list it iterates,
\* so the entry behind a removed one moves under the iterator and is passed
\* over.
RECURSIVE RemoveProcessorLoop(_, _, _)
RemoveProcessorLoop(procs, t, i) ==
    IF i > Len(procs) THEN procs
    ELSE IF procs[i].type = t
         THEN RemoveProcessorLoop(SubSeq(procs, 1, i - 1)
                                      \o SubSeq(procs, i + 1, Len(procs)), t, i + 1)
         ELSE RemoveProcessorLoop(procs, t, i + 1)
\* esper's remove_processor(processor_type)
remove_processor(procs, t) == RemoveProcessorLoop(procs, t, 1)

\* esper's get_processor(processor_type): the first processor of the type
get_processor(procs, t) ==
    IF \E i \in 1..Len(procs) : procs[i].type = t
    THEN procs[CHOOSE i \in 1..Len(procs) :
                   /\ procs[i].type = t
                   /\ \A j \in 1..(i - 1) : procs[j].type # t].id
    ELSE None

\* World.add_system(system, priority) of a system just constructed
sys_add_system(t, priority) ==
    /\ nextSystem < MaxSystems
    /\ LET p == [id |-> nextSystem + 1, type |-> t, priority |-> priority] IN
       /\ processors' = add_processor(processors, p)
       /\ nextSystem' = p.id
       /\ addedTypes' = addedTypes \cup {t}
       /\ sysCall' = [NoSysCall EXCEPT !.op = "add_system", !.type = t,
                                      !.value = p.id]
    /\ UNCHANGED <<updates, stepsSince>>
    /\ UNCHANGED sysRest

\* World.remove_system(system_type)
sys_remove_system(t) ==
    /\ processors' = remove_processor(processors, t)
    /\ addedTypes' = addedTypes \ {t}
    /\ sysCall' = [NoSysCall EXCEPT !.op = "remove_system", !.type = t]
    /\ UNCHANGED <<nextSystem, updates, stepsSince>>
    /\ UNCHANGED sysRest

\* World.get_system(system_type)
sys_get_system(t) ==
    /\ sysCall' = [NoSysCall EXCEPT !.op = "get_system", !.type = t,
                                   !.value = get_processor(processors, t)]
    /\ UNCHANGED <<processors, nextSystem, updates, stepsSince, addedTypes>>
    /\ UNCHANGED sysRest

\* esper's process(): processor.process() of each processor, in list order
RECURSIVE ProcessAll(_, _, _)
ProcessAll(r, procs, i) ==
    IF i > Len(procs) THEN r
    ELSE ProcessAll([ran |-> Append(r.ran, procs[i].id),
                     updates |-> [r.updates EXCEPT ![procs[i].id] = @ + 1]],
                    procs, i + 1)

\* World.step() in a world without gameobjects: the purge finds nothing,
\* then the systems run.
sys_step ==
    /\ \A p \in SeqToSet(processors) : updates[p.id] < MaxUpdates
    /\ LET r == ProcessAll([ran |-> <<>>, updates |-> updates], processors, 1) IN
       /\ updates' = r.updates
       /\ sysCall' = [NoSysCall EXCEPT !.op = "step", !.ran = r.ran]
    /\ stepsSince' = [i \in SystemIds |->
                         IF \E p \in SeqToSet(processors) : p.id = i
                         THEN stepsSince[i] + 1 ELSE stepsSince[i]]
    /\ UNCHANGED <<processors, nextSystem, addedTypes>>
    /\ UNCHANGED sysRest

InitSystems ==
    /\ processors = <<>>
    /\ nextSystem = 0
    /\ updates = [i \in SystemIds |-> 0]
    /\ stepsSince = [i \in SystemIds |-> 0]
    /\ addedTypes = {}
    /\ sysCall = NoSysCall

NextSystems ==
    \/ \E t \in SystemTypes, priority \in Priorities : sys_add_system(t, priority)
    \/ \E t \in SystemTypes : sys_remove_system(t)
    \/ \E t \in SystemTypes : sys_get_system(t)
    \/ sys_step

\* ----------------------------------------------------------------- plugins
\* Strings are sequences of code points. The characters of a version
\* constraint: digits, the dot and the comparison signs.
Digit(d) == 48 + d
Sign(ch) == CASE ch = "." -> 46 [] ch = "<" -> 60 [] ch = "=" -> 61 [] ch = ">" -> 62
\* A version MAJOR.MINOR.PATCH, as PluginInfo and __version__ write it.
VersionNumbers == {<<0, 9, 0>>, <<1, 0, 0>>, <<1, 1, 0>>}
VersionStr(v) == <<Digit(v[1]), Sign("."), Digit(v[2]), Sign("."), Digit(v[3])>>
\* The forms of PluginInfo.required_version
Forms == {"<=", ">=", "<", ">", "=="}
FormStr(f) ==
    CASE f = "<=" -> <<Sign("<"), Sign("=")>>
      [] f = ">=" -> <<Sign(">"), Sign("=")>>
      [] f = "<" -> <<Sign("<")>>
      [] f = ">" -> <<Sign(">")>>
      [] f = "==" -> <<Sign("="), Sign("=")>>
\* The plugin modules a configuration may name: with or without plugin_info,
\* whose required_version is None or a form and a version; setup is missing,
\* not callable or a function.
NoVersion == <<>>
RequiredVersions == {NoVersion} \cup {FormStr(f) \o VersionStr(v) : f \in Forms, v \in VersionNumbers}
SetupKinds == {"missing", "not callable", "function"}
PluginModules ==
    {[name |-> n, plugin_info |-> FALSE, required_version |-> NoVersion, setup |-> k] :
         n \in {"a", "b"}, k \in SetupKinds}
    \cup {[name |-> n, plugin_info |-> TRUE, required_version |-> r, setup |-> k] :
              n \in {"a", "b"}, r \in RequiredVersions, k \in SetupKinds}
NoPlgCall == [op |-> "none", version |-> <<>>, plugin |-> <<>>, raised |-> "none",
              setup_calls |-> 0]

\* str < str: the code points are compared one by one, a proper prefix is less.
RECURSIVE StrLess(_, _, _)
StrLess(a, b, i) ==
    IF i > Len(a) THEN i <= Len(b)
    ELSE IF i > Len(b) THEN FALSE
    ELSE IF a[i] # b[i] THEN a[i] < b[i]
    ELSE StrLess(a, b, i + 1)
str_lt(a, b) == StrLess(a, b, 1)
str_gt(a, b) == StrLess(b, a, 1)
str_le(a, b) == ~StrLess(b, a, 1)

\* re.fullmatch of the pattern of form f: the signs of the form, then digits
\* and dots (the versions here are of the form MAJOR.MINOR.PATCH).
fullmatch(f, str) ==
    /\ Len(str) > Len(FormStr(f))
    /\ SubSeq(str, 1, Len(FormStr(f))) = FormStr(f)
    /\ str[Len(FormStr(f)) + 1] \notin {Sign("<"), Sign("="), Sign(">")}

\* The if/elif chain of load_plugin over required_version: whether it raises.
VersionCheckRaises(VERSION, required_version) ==
    IF fullmatch("<=", required_version) THEN str_gt(VERSION, required_version)
    ELSE IF fullmatch(">=", required_version) THEN str_lt(VERSION, required_version)
    ELSE IF fullmatch(">", required_version) THEN str_le(VERSION, required_version)
    ELSE IF fullmatch("<", required_version) THEN str_gt(VERSION, required_version)
    ELSE IF fullmatch("==", required_version) THEN VERSION # required_version
    ELSE FALSE

\* Neighborly.load_plugin(plugin): what it raises and how often it calls the
\* plugin's setup.
load_plugin(VERSION, module) ==
    IF ~module.plugin_info THEN [raised |-> "PluginSetupError", setup_calls |-> 0]
    ELSE IF module.setup = "missing"
    THEN [raised |-> "PluginSetupError", setup_calls |-> 0]
    ELSE IF module.setup = "not callable"
    THEN [raised |-> "PluginSetupError", setup_calls |-> 0]
    ELSE IF /\ module.required_version # NoVersion
            /\ VersionCheckRaises(VERSION, module.required_version)
    THEN [raised |-> "PluginSetupError", setup_calls |-> 0]
    ELSE [raised |-> "none", setup_calls |-> 1]

\* sim.load_plugin(plugin) in a simulation whose running version is v.
call_load_plugin(v, module) ==
    /\ LET r == load_plugin(VersionStr(v), module) IN
       /\ plgCall' = [op |-> "load_plugin", version |-> v, plugin |-> module,
                      raised |-> r.raised, setup_calls |-> r.setup_calls]
       /\ setups[module.name] + r.setup_calls <= MaxSetups
       /\ setups' = [setups EXCEPT ![module.name] = @ + r.setup_calls]
    /\ UNCHANGED plgRest

InitPlugins ==
    /\ setups = [n \in {"a", "b"} |-> 0]
    /\ plgCall = NoPlgCall

NextPlugins ==
    \E v \in VersionNumbers, module \in PluginModules : call_load_plugin(v, module)

\* -------------------------------------------------------------- archetypes
\* The archetypes of a simulation and the component types of each; a
\* gameobject of spawn_gameobject has no archetype.
Archetypes == {"Person", "Marker"}
NoArchetype == "none"
ArchetypeComponents(a) == IF a = "Person" THEN {"A", "B"} ELSE {}
ArchIds == 1..MaxArchObjects

\* EntityArchetype.increment_instances
increment_instances(n) == n + 1
\* A decrement_instances that leaves the counter alone.
decrement_instances_keeping(n) == n
\* EntityArchetype.decrement_instances
decrement_instances(n) == n - 1

\* World.spawn_archetype(archetype)
arch_spawn_archetype(a) ==
    /\ aNextId < MaxArchObjects
    /\ LET entity_id == create_entity(aNextId, <<>>) IN
       /\ aNextId' = entity_id
       /\ aEntities' = IF ArchetypeComponents(a) # {} THEN aEntities \cup {entity_id}
                       ELSE aEntities
       /\ instances' = [instances EXCEPT ![a] = increment_instances(@)]
       /\ aGameobjects' = DictSet(aGameobjects, entity_id, a)
    /\ UNCHANGED <<aDead, aError>>
    /\ UNCHANGED archRest

\* World.spawn_gameobject(components) with one component: a gameobject of no
\* archetype.
arch_spawn_gameobject ==
    /\ aNextId < MaxArchObjects
    /\ LET entity_id == create_entity(aNextId, <<>>) IN
       /\ aNextId' = entity_id
       /\ aEntities' = aEntities \cup {entity_id}
       /\ aGameobjects' = DictSet(aGameobjects, entity_id, NoArchetype)
    /\ UNCHANGED <<aDead, instances, aError>>
    /\ UNCHANGED archRest

\* World.delete_gameobject(gid), of any id handed out so far
arch_delete_gameobject(gid) ==
    /\ gid <= aNextId
    /\ Len(aDead) < MaxArchDead
    /\ aDead' = QueueDead(aDead, gid)
    /\ UNCHANGED <<aGameobjects, aEntities, aNextId, instances, aError>>
    /\ UNCHANGED archRest

\* World._clear_dead_gameobjects with the archetypes: the loop from the i-th
\* entry of _dead_gameobjects on.
RECURSIVE ArchClearDeadLoop(_, _)
ArchClearDeadLoop(w, i) ==
    IF i > Len(w.dead) THEN [w EXCEPT !.dead = <<>>, !.error = "none"]
    ELSE LET gameobject_id == w.dead[i] IN
         IF ~DictHas(w.gameobjects, gameobject_id) THEN [w EXCEPT !.error = "KeyError"]
         ELSE LET archetype == DictGet(w.gameobjects, gameobject_id) IN
              ArchClearDeadLoop(
                  [w EXCEPT !.instances =
                                IF archetype # NoArchetype
                                THEN [@ EXCEPT ![archetype] = decrement_instances(@)]
                                ELSE @,
                            !.gameobjects = DictDel(@, gameobject_id),
                            !.entities = @ \ {gameobject_id}],
                  i + 1)

\* World.step(): the purge, then the systems (this world has none).
arch_step ==
    /\ LET w == ArchClearDeadLoop([gameobjects |-> aGameobjects, entities |-> aEntities,
                                   instances |-> instances, dead |-> aDead,
                                   error |-> "none"], 1) IN
       /\ aGameobjects' = w.gameobjects
       /\ aEntities' = w.entities
       /\ instances' = w.instances
       /\ aDead' = w.dead
       /\ aError' = w.error
    /\ UNCHANGED aNextId
    /\ UNCHANGED archRest

InitArchetypes ==
    /\ aGameobjects = <<>>
    /\ aEntities = {}
    /\ aNextId = 0
    /\ aDead = <<>>
    /\ instances = [a \in Archetypes |-> 0]
    /\ aError = "none"

NextArchetypes ==
    \/ \E a \in Archetypes : arch_spawn_archetype(a)
    \/ arch_spawn_gameobject
    \/ \E gid \in ArchIds : arch_delete_gameobject(gid)
    \/ arch_step

\* ----------------------------------------------------------------- schools
\* LifeStageType
Child == 0
Adolescent == 1
YoungAdult == 2
SchIds == 1..MaxSchoolIds
\* What School.remove_student does with a character that is not a student of
\* the school: it raises, or it leaves the students as they are.
NonMemberRemovals == {"KeyError", "ignored"}

\* School.add_student, School.remove_student
add_student(students, uid) == students \cup {uid}
remove_student(students, uid) == students \ {uid}

\* The ids of a dict of the town in the order world.get_component and
\* world.get_components yield them: esper iterates a set of entity ids.
SchoolOrder(sch) == SetIter(SeqToSet(DictKeys(sch)), SeqToSet(DictKeys(sch)))

\* SchoolSystem.get_unenrolled_students
get_unenrolled_students(town) ==
    SelectSeq(SchoolOrder(town.pupils),
              LAMBDA c : LET p == DictGet(town.pupils, c) IN
                         p.active /\ p.life_stage <= Adolescent /\ ~p.student)
\* SchoolSystem.get_adult_students
get_adult_students(town) ==
    SelectSeq(SchoolOrder(town.pupils),
              LAMBDA c : LET p == DictGet(town.pupils, c) IN
                         p.active /\ p.student /\ p.life_stage >= YoungAdult)

\* The first loop of on_update over the unenrolled students cs, for school.
RECURSIVE EnrollLoop(_, _, _, _)
EnrollLoop(town, school, cs, i) ==
    IF i > Len(cs) THEN town
    ELSE EnrollLoop(
             [town EXCEPT
                 !.schools = DictSet(@, school, add_student(DictGet(@, school), cs[i])),
                 !.pupils = DictSet(@, cs[i], [DictGet(@, cs[i]) EXCEPT !.student = TRUE])],
             school, cs, i + 1)

\* The second loop of on_update over the adult students cs, for school; how
\* is what remove_student does with a character the school does not hold.
RECURSIVE GraduateLoop(_, _, _, _, _)
GraduateLoop(town, school, cs, i, how) ==
    IF i > Len(cs) THEN town
    ELSE IF cs[i] \notin DictGet(town.schools, school) /\ how = "KeyError"
    THEN [town EXCEPT !.error = "KeyError"]
    ELSE GraduateLoop(
             [town EXCEPT
                 !.schools = DictSet(@, school, remove_student(DictGet(@, school), cs[i])),
                 !.pupils = DictSet(@, cs[i], [DictGet(@, cs[i]) EXCEPT !.student = FALSE]),
                 !.graduates = @ \cup {cs[i]}],
             school, cs, i + 1, how)

\* SchoolSystem.on_update: the loop over the schools from the i-th on.
RECURSIVE SchoolLoop(_, _, _, _)
SchoolLoop(town, order, i, how) ==
    IF i > Len(order) \/ town.error # "none" THEN town
    ELSE LET enrolled == EnrollLoop(town, order[i], get_unenrolled_students(town), 1)
             graduated == GraduateLoop(enrolled, order[i], get_adult_students(enrolled),
                                       1, how)
         IN SchoolLoop(graduated, order, i + 1, how)

on_update(how) ==
    /\ LET town == SchoolLoop([schools |-> schools, pupils |-> pupils,
                               graduates |-> graduates, error |-> "none"],
                              SchoolOrder(schools), 1, how) IN
       /\ schools' = town.schools
       /\ pupils' = town.pupils
       /\ graduates' = town.graduates
       /\ schError' = town.error
    /\ UNCHANGED schNextId
    /\ UNCHANGED schRest

\* A school is built: a gameobject with a School component and no students.
\* The town has spawned n - schNextId other gameobjects since the last one
\* of this model.
spawn_school(n) ==
    /\ n >= schNextId
    /\ Len(schools) < MaxSchools
    /\ LET entity_id == create_entity(n, <<>>) IN
       /\ entity_id \in SchIds
       /\ schNextId' = entity_id
       /\ schools' = DictSet(schools, entity_id, {})
    /\ UNCHANGED <<pupils, graduates, schError>>
    /\ UNCHANGED schRest

\* A character is born: a gameobject with GameCharacter, Active and LifeStage.
spawn_pupil(n) ==
    /\ n >= schNextId
    /\ Len(pupils) < MaxPupils
    /\ LET entity_id == create_entity(n, <<>>) IN
       /\ entity_id \in SchIds
       /\ schNextId' = entity_id
       /\ pupils' = DictSet(pupils, entity_id,
                            [life_stage |-> Child, student |-> FALSE, active |-> TRUE])
    /\ UNCHANGED <<schools, graduates, schError>>
    /\ UNCHANGED schRest

\* A character reaches its next life stage (up to YoungAdult: the later
\* stages are the same to the SchoolSystem).
grow_up(c) ==
    /\ DictHas(pupils, c)
    /\ DictGet(pupils, c).life_stage < YoungAdult
    /\ pupils' = DictSet(pupils, c, [DictGet(pupils, c) EXCEPT !.life_stage = @ + 1])
    /\ UNCHANGED <<schNextId, schools, graduates, schError>>
    /\ UNCHANGED schRest

InitSchools ==
    /\ schNextId = 0
    /\ schools = <<>>
    /\ pupils = <<>>
    /\ graduates = {}
    /\ schError = "none"

NextSchools ==
    \/ \E n \in 0..(MaxSchoolIds - 1) : spawn_school(n)
    \/ \E n \in 0..(MaxSchoolIds - 1) : spawn_pupil(n)
    \/ \E c \in SchIds : grow_up(c)
    \/ \E how \in NonMemberRemovals : on_update(how)

\* ----------------------------------------------------------------- couples
\* The characters of the town and the ordered pairs of them.
DChars == {1, 2}
DPairs == DChars \X DChars
\* The defaults of the romance thresholds of the NeighborlyConfig settings.
DatingRomanceThreshold == 25
BreakupRomanceThreshold == 0 - 10
DivorceRomanceThreshold == 0 - 25
MarriageRomanceThreshold == 60
MinYearsDating == 1
\* The values social interactions give the Romance stat of a relationship.
RomanceValues == {DivorceRomanceThreshold, StatBaseValue, MarriageRomanceThreshold}
\* No relationship gameobject for a pair, and the one add_relationship makes.
NoRel == [exists |-> FALSE, romance |-> StatBaseValue, dating |-> <<>>, married |-> FALSE]
NewRel == [NoRel EXCEPT !.exists = TRUE]
DatingEvents == {"StartDating", "DatingBreakUp", "Marriage", "Divorce"}
NoAttempt == [type |-> "none", event |-> <<>>, executed |-> FALSE, created |-> {}]

\* has_relationship(owner, target), get_relationship(subject, target): the
\* relationships after the call (the one of the pair is created when missing)
d_has_relationship(rels, own, tgt) == rels[<<own, tgt>>].exists
d_get_relationship(rels, subject, tgt) ==
    IF ~d_has_relationship(rels, subject, tgt)
    THEN [rels EXCEPT ![<<subject, tgt>>] = NewRel]
    ELSE rels
\* RelationshipManager.outgoing of a character: the targets
d_outgoing(rels, c) == {t \in DChars : rels[<<c, t>>].exists}
\* has_status(relationship, Dating), has_status(relationship, Married)
HasDating(rels, a, b) == rels[<<a, b>>].exists /\ rels[<<a, b>>].dating # <<>>
HasMarried(rels, a, b) == rels[<<a, b>>].exists /\ rels[<<a, b>>].married
\* get_relationships_with_statuses(c, Dating)
DatingRelationships(rels, c) == {t \in DChars : HasDating(rels, c, t)}
\* is_single(c): no relationship of c holds Dating or Married
is_single(rels, c) == \A t \in DChars : ~HasDating(rels, c, t) /\ ~HasMarried(rels, c, t)
\* are_related(a, b): the characters of this town are of different families
are_related(a, b) == FALSE

\* An add_relationship_status that leaves the relationship as it is.
add_relationship_status_nowhere(rels, own, tgt, status, now) == rels
\* add_relationship_status(owner, target, status), at date now
add_relationship_status(rels, own, tgt, status, now) ==
    LET got == d_get_relationship(rels, own, tgt) IN
    [got EXCEPT ![<<own, tgt>>] =
        IF status = "Dating" THEN [@ EXCEPT !.dating = <<now>>]
        ELSE [@ EXCEPT !.married = TRUE]]
\* remove_relationship_status(owner, target, status type)
remove_relationship_status(rels, own, tgt, status) ==
    LET got == d_get_relationship(rels, own, tgt) IN
    [got EXCEPT ![<<own, tgt>>] =
        IF status = "Dating" THEN [@ EXCEPT !.dating = <<>>]
        ELSE [@ EXCEPT !.married = FALSE]]

\* The candidates of _bind_initiator and of _bind_other: the candidate of the
\* bindings (0: none given), or the characters the code lists.
InitiatorCandidates(candidate, active) == IF candidate # 0 THEN {candidate} ELSE active
OtherCandidates(rels, initiator, candidate) ==
    IF candidate # 0
    THEN IF d_has_relationship(rels, initiator, candidate)
            /\ d_has_relationship(rels, candidate, initiator)
         THEN {candidate} ELSE {}
    ELSE d_outgoing(rels, initiator)

\* The relationships after the loop of _bind_other has called
\* get_relationship(initiator, character) and, when both is set,
\* get_relationship(character, initiator) for every candidate.
RECURSIVE BindOtherWorld(_, _, _, _)
BindOtherWorld(rels, initiator, candidates, both) ==
    IF candidates = {} THEN rels
    ELSE LET character == CHOOSE c \in candidates : TRUE
             out == d_get_relationship(rels, initiator, character)
             inc == IF both THEN d_get_relationship(out, character, initiator) ELSE out
         IN BindOtherWorld(inc, initiator, candidates \ {character}, both)

\* StartDatingLifeEvent._bind_initiator, _bind_other: the characters the
\* random choice is made among.
StartDating_bind_initiator(rels, candidate, active, stage) ==
    {c \in InitiatorCandidates(candidate, active) :
         is_single(rels, c) /\ stage[c] >= Adolescent}
StartDating_bind_other(rels, initiator, candidate, active, stage) ==
    LET after == BindOtherWorld(rels, initiator,
                                OtherCandidates(rels, initiator, candidate), TRUE) IN
    {c \in OtherCandidates(rels, initiator, candidate) :
         /\ c \in active
         /\ stage[c] >= Adolescent
         /\ is_single(after, c)
         /\ after[<<initiator, c>>].romance >= DatingRomanceThreshold
         /\ after[<<c, initiator>>].romance >= DatingRomanceThreshold
         /\ ~are_related(initiator, c)
         /\ c # initiator}

\* DatingBreakUp._bind_initiator, _bind_other
DatingBreakUp_bind_initiator(rels, candidate, active) ==
    {c \in InitiatorCandidates(candidate, active) : DatingRelationships(rels, c) # {}}
DatingBreakUp_bind_other(rels, initiator, candidate) ==
    {c \in OtherCandidates(rels, initiator, candidate) :
         /\ HasDating(rels, initiator, c)
         /\ rels[<<initiator, c>>].romance <= BreakupRomanceThreshold}

\* MarriageLifeEvent._bind_initiator, _bind_other, at date now
Marriage_bind_initiator(rels, candidate, active) ==
    {c \in InitiatorCandidates(candidate, active) : DatingRelationships(rels, c) # {}}
Marriage_bind_other(rels, initiator, candidate, active, now) ==
    LET after == BindOtherWorld(rels, initiator,
                                OtherCandidates(rels, initiator, candidate), TRUE) IN
    {c \in OtherCandidates(rels, initiator, candidate) :
         /\ HasDating(after, initiator, c)
         /\ now - after[<<initiator, c>>].dating[1] >= MinYearsDating
         /\ HasDating(after, c, initiator)
         /\ c \in active
         /\ after[<<initiator, c>>].romance >= MarriageRomanceThreshold
         /\ after[<<c, initiator>>].romance >= MarriageRomanceThreshold
         /\ c # initiator}

\* The results of the query of DivorceLifeEvent.instantiate: the pairs of an
\* active character and the target of a relationship of it that holds
\* Married and whose romance is at the threshold or under it.
DivorceResults(rels, initiator, other, active) ==
    {pr \in DPairs :
         /\ initiator # 0 => pr[1] = initiator
         /\ other # 0 => pr[2] = other
         /\ pr[1] \in active
         /\ HasMarried(rels, pr[1], pr[2])
         /\ rels[pr].romance <= DivorceRomanceThreshold}

\* instantiate of the four event types with the bindings (initiator, other;
\* 0: not bound): the relationships after it, and the pairs the random
\* choices can make the roles of the event (none: instantiate returns None).
d_instantiate(type, rels, initiator, other, active, stage, now) ==
    LET firsts == CASE type = "StartDating" ->
                           StartDating_bind_initiator(rels, initiator, active, stage)
                    [] type = "DatingBreakUp" ->
                           DatingBreakUp_bind_initiator(rels, initiator, active)
                    [] type = "Marriage" ->
                           Marriage_bind_initiator(rels, initiator, active)
                    [] type = "Divorce" -> {}
        seconds(i) == CASE type = "StartDating" ->
                               StartDating_bind_other(rels, i, other, active, stage)
                        [] type = "DatingBreakUp" ->
                               DatingBreakUp_bind_other(rels, i, other)
                        [] type = "Marriage" ->
                               Marriage_bind_other(rels, i, other, active, now)
                        [] type = "Divorce" -> {}
    IN IF type = "Divorce"
       THEN {[rels |-> rels, event |-> <<pr[1], pr[2]>>] :
                 pr \in DivorceResults(rels, initiator, other, active)}
            \cup (IF DivorceResults(rels, initiator, other, active) = {}
                  THEN {[rels |-> rels, event |-> <<>>]} ELSE {})
       ELSE IF firsts = {} THEN {[rels |-> rels, event |-> <<>>]}
       ELSE UNION {
                LET after == BindOtherWorld(rels, i, OtherCandidates(rels, i, other),
                                            type # "DatingBreakUp")
                IN IF seconds(i) = {} THEN {[rels |-> after, event |-> <<>>]}
                   ELSE {[rels |-> after, event |-> <<i, o>>] : o \in seconds(i)}
                : i \in firsts}

\* StartDatingLifeEvent.execute
StartDating_execute_one_way(rels, initiator, other, now) ==
    add_relationship_status(rels, initiator, other, "Dating", now)
StartDating_execute(rels, initiator, other, now) ==
    add_relationship_status(
        add_relationship_status(rels, initiator, other, "Dating", now),
        other, initiator, "Dating", now)
\* DatingBreakUp.execute
DatingBreakUp_execute(rels, initiator, other) ==
    remove_relationship_status(
        remove_relationship_status(rels, initiator, other, "Dating"),
        other, initiator, "Dating")
\* DivorceLifeEvent.execute
Divorce_execute(rels, initiator, ex_spouse) ==
    remove_relationship_status(
        remove_relationship_status(rels, initiator, ex_spouse, "Married"),
        ex_spouse, initiator, "Married")
\* MarriageLifeEvent.execute: the statuses
Marriage_execute(rels, initiator, other, now) ==
    add_relationship_status(
        add_relationship_status(
            remove_relationship_status(
                remove_relationship_status(rels, initiator, other, "Dating"),
                other, initiator, "Dating"),
            initiator, other, "Married", now),
        other, initiator, "Married", now)
d_execute(type, rels, initiator, other, now) ==
    CASE type = "StartDating" -> StartDating_execute(rels, initiator, other, now)
      [] type = "DatingBreakUp" -> DatingBreakUp_execute(rels, initiator, other)
      [] type = "Marriage" -> Marriage_execute(rels, initiator, other, now)
      [] type = "Divorce" -> Divorce_execute(rels, initiator, other)

\* The life event system attempts an event type with the bindings given:
\* instantiate and, when an event comes back and the draw passes its
\* probability, execute. A marriage also moves the residents of the other's
\* residence in with the initiator and gives the other the initiator's last
\* name.
attempt_event(type, initiator, other, passes) ==
    \E r \in d_instantiate(type, dRels, initiator, other, dActive, dStage, dYear) :
        LET executes == r.event # <<>> /\ passes
            movers == IF executes /\ type = "Marriage"
                      THEN {c \in DChars : dResidence[c] = dResidence[r.event[2]]}
                      ELSE {}
        IN /\ dRels' = IF executes THEN d_execute(type, r.rels, r.event[1], r.event[2], dYear)
                       ELSE r.rels
           /\ dResidence' = [c \in DChars |->
                                IF c \in movers THEN dResidence[r.event[1]]
                                ELSE dResidence[c]]
           /\ dLastName' = IF executes /\ type = "Marriage"
                           THEN [dLastName EXCEPT ![r.event[2]] = dLastName[r.event[1]]]
                           ELSE dLastName
           /\ dLast' = [type |-> type, event |-> r.event, executed |-> executes,
                        created |-> {pr \in DPairs : r.rels[pr].exists /\ ~dRels[pr].exists}]
           /\ UNCHANGED <<dActive, dStage, dYear>>
           /\ UNCHANGED dtRest

\* Two characters meet: get_relationship(a, b).
meet(a, b) ==
    /\ a # b
    /\ ~d_has_relationship(dRels, a, b)
    /\ dRels' = d_get_relationship(dRels, a, b)
    /\ dLast' = NoAttempt
    /\ UNCHANGED <<dActive, dStage, dResidence, dLastName, dYear>>
    /\ UNCHANGED dtRest

\* A social interaction sets the Romance of a relationship.
set_romance(a, b, v) ==
    /\ d_has_relationship(dRels, a, b)
    /\ dRels[<<a, b>>].romance # v
    /\ dRels' = [dRels EXCEPT ![<<a, b>>].romance = v]
    /\ dLast' = NoAttempt
    /\ UNCHANGED <<dActive, dStage, dResidence, dLastName, dYear>>
    /\ UNCHANGED dtRest

\* A child becomes an adolescent.
come_of_age(c) ==
    /\ dStage[c] < Adolescent
    /\ dStage' = [dStage EXCEPT ![c] = Adolescent]
    /\ dLast' = NoAttempt
    /\ UNCHANGED <<dRels, dActive, dResidence, dLastName, dYear>>
    /\ UNCHANGED dtRest

\* A character leaves the town: its Active component is removed.
depart(c) ==
    /\ c \in dActive
    /\ dActive' = dActive \ {c}
    /\ dLast' = NoAttempt
    /\ UNCHANGED <<dRels, dStage, dResidence, dLastName, dYear>>
    /\ UNCHANGED dtRest

\* A year passes.
pass_year ==
    /\ dYear < MaxYears
    /\ dYear' = dYear + 1
    /\ dLast' = NoAttempt
    /\ UNCHANGED <<dRels, dActive, dStage, dResidence, dLastName>>
    /\ UNCHANGED dtRest

InitCouples ==
    /\ dRels = [pr \in DPairs |-> NoRel]
    /\ dActive = DChars
    /\ dStage = [c \in DChars |-> Child]
    /\ dResidence = [c \in DChars |-> c]
    /\ dLastName = [c \in DChars |-> c]
    /\ dYear = 0
    /\ dLast = NoAttempt

NextCouples ==
    \/ \E a, b \in DChars : meet(a, b)
    \/ \E a, b \in DChars, v \in RomanceValues : set_romance(a, b, v)
    \/ \E c \in DChars : come_of_age(c)
    \/ \E c \in DChars : depart(c)
    \/ pass_year
    \/ \E type \in DatingEvents, i, o \in DChars \cup {0}, passes \in BOOLEAN :
           attempt_event(type, i, o, passes)

\* ------------------------------------------------------------------ old age
OaChars == {1, 2}
Lifespans == {1, 2}
NoOaStep == [op |-> "none", forced |-> FALSE, old |-> {}, logged |-> <<>>]

\* The living characters whose age is at least their lifespan.
OldEnough(age, lifespan, active) == {c \in active : age[c] >= lifespan[c]}

\* A query of DieOfOldAge.instantiate that leaves the filter on Age out.
DieOfOldAgeResultsOfAnyAge(age, lifespan, active, deceased) ==
    {c \in active : deceased # 0 => c = deceased}
\* The results of the query of DieOfOldAge.instantiate: the active
\* characters whose Age is at least their Lifespan, with the bindings
\* (deceased; 0: not bound).
DieOfOldAgeResults(age, lifespan, active, deceased) ==
    {c \in active : (deceased # 0 => c = deceased) /\ age[c] >= lifespan[c]}
\* DieOfOldAge.get_probability, in hundredths
DieOfOldAge_get_probability(age, lifespan, c) == (100 * age[c]) \div (lifespan[c] + 10)
\* DieOfOldAge.execute: Die(deceased).evaluate() takes the character out of
\* the active characters.
Die(active, c) == active \ {c}

\* One tick of the life event system: every registered event type is
\* instantiated once, then gated by its probability against the draw (forced:
\* get_probability is patched to return 1.0), executed and logged.
oa_step(forced, draw) ==
    /\ oaLibrary # <<>>
    /\ Len(oaLog) < MaxObituaries
    /\ LET results == DieOfOldAgeResults(oaAge, oaLifespan, oaActive, 0) IN
       \/ /\ results = {}
          /\ oaLast' = [op |-> "step", forced |-> forced,
                        old |-> OldEnough(oaAge, oaLifespan, oaActive), logged |-> <<>>]
          /\ UNCHANGED <<oaActive, oaLog>>
       \/ \E c \in results :
              LET passes == forced
                            \/ draw < DieOfOldAge_get_probability(oaAge, oaLifespan, c)
                  event == [type |-> "DieOfOldAge", roles |-> <<<<"Deceased", c>>>>]
              IN /\ oaActive' = IF passes THEN Die(oaActive, c) ELSE oaActive
                 /\ oaLog' = IF passes THEN Append(oaLog, event) ELSE oaLog
                 /\ oaLast' = [op |-> "step", forced |-> forced,
                               old |-> OldEnough(oaAge, oaLifespan, oaActive),
                               logged |-> IF passes THEN <<event>> ELSE <<>>]
    /\ UNCHANGED <<oaLibrary, oaAge, oaLifespan>>
    /\ UNCHANGED oaRest

\* setup(sim) of the plugin: event_library.add(DieOfOldAge)
oa_setup ==
    /\ oaLibrary = <<>>
    /\ oaLibrary' = <<"DieOfOldAge">>
    /\ oaLast' = NoOaStep
    /\ UNCHANGED <<oaAge, oaLifespan, oaActive, oaLog>>
    /\ UNCHANGED oaRest

\* A character is created with a lifespan.
oa_spawn(c, lifespan) ==
    /\ oaLifespan[c] = 0
    /\ oaLifespan' = [oaLifespan EXCEPT ![c] = lifespan]
    /\ oaActive' = oaActive \cup {c}
    /\ oaLast' = NoOaStep
    /\ UNCHANGED <<oaLibrary, oaAge, oaLog>>
    /\ UNCHANGED oaRest

\* An active character ages a year.
oa_age(c) ==
    /\ c \in oaActive
    /\ oaAge[c] < MaxAge
    /\ oaAge' = [oaAge EXCEPT ![c] = @ + 1]
    /\ oaLast' = NoOaStep
    /\ UNCHANGED <<oaLibrary, oaLifespan, oaActive, oaLog>>
    /\ UNCHANGED oaRest

InitOldAge ==
    /\ oaLibrary = <<>>
    /\ oaAge = [c \in OaChars |-> 0]
    /\ oaLifespan = [c \in OaChars |-> 0]
    /\ oaActive = {}
    /\ oaLog = <<>>
    /\ oaLast = NoOaStep

NextOldAge ==
    \/ oa_setup
    \/ \E c \in OaChars, lifespan \in Lifespans : oa_spawn(c, lifespan)
    \/ \E c \in OaChars : oa_age(c)
    \/ \E forced \in BOOLEAN, draw \in Draws : oa_step(forced, draw)

\* --------------------------------------------------- default plugin events
EvChars == {1, 2}
\* character.config.lifecycle.senior_age and character.max_age, in years
senior_age == 1
max_age == 2
\* The events the plugin registers, in the order of events.py.
DefaultEvents == <<"Death", "Became Senior", "Dating", "Marriage">>
NoStatuses == [Senior |-> FALSE, Dating |-> 0, Married |-> 0]
LifeEventRecord(name, subjects) == [name |-> name, subjects |-> subjects]
\* What StatusManager.remove_status does with a status the character does
\* not hold: it raises, or it leaves the statuses as they are.
MissingStatusRemovals == {"KeyError", "ignored"}

\* The precondition p of each event for gameobject g in world w.
DeathEvent_p(w, g) == w.chars[g].alive /\ w.chars[g].age >= max_age
BecameSeniorEvent_p(w, g) == w.chars[g].age >= senior_age /\ ~w.statuses[g].Senior
\* The love interests of g that know g and are not dating: the other nodes
\* of the network, each a love interest of every other.
SingleLoveInterests(w, g) ==
    IF g \notin w.network THEN {}
    ELSE {li \in w.network \ {g} : li \in w.world /\ w.statuses[li].Dating = 0}
StartedDatingEvent_p(w, g) == w.statuses[g].Dating = 0 /\ SingleLoveInterests(w, g) # {}
MarriageEvent_p(w, g) == w.statuses[g].Dating # 0
precondition(e, w, g) ==
    CASE e = "Death" -> DeathEvent_p(w, g)
      [] e = "Became Senior" -> BecameSeniorEvent_p(w, g)
      [] e = "Dating" -> StartedDatingEvent_p(w, g)
      [] e = "Marriage" -> MarriageEvent_p(w, g)

\* The callback cb of DeathEvent
DeathEvent_cb(w, g) ==
    [w EXCEPT !.chars[g].alive = FALSE,
              !.network = @ \ {g},
              !.log = Append(@, LifeEventRecord("Death", <<g>>)),
              !.dead = QueueDead(@, g)]
\* The callback cb of BecameSeniorEvent
BecameSeniorEvent_cb(w, g) ==
    [w EXCEPT !.statuses[g].Senior = TRUE,
              !.log = Append(@, LifeEventRecord("Became Senior", <<g>>))]
\* The callback cb of StartedDatingEvent, the rng choosing potential_mate
StartedDatingEvent_cb(w, g, potential_mate) ==
    [w EXCEPT !.log = Append(@, LifeEventRecord("Dating", <<g, potential_mate>>)),
              !.statuses[potential_mate].Dating = g,
              !.statuses[g].Dating = potential_mate]
\* The callback cb of MarriageEvent. It removes the Dating status of the
\* gameobject twice (how: what the second remove_status does), then looks the
\* partner up in the world.
MarriageEvent_cb(w, g, how) ==
    LET partner_id == w.statuses[g].Dating
        removed == [w EXCEPT !.statuses[g].Dating = 0]
    IN IF how = "KeyError" THEN [removed EXCEPT !.error = "KeyError"]
       ELSE IF partner_id \notin w.world
       THEN [removed EXCEPT !.error = "GameObjectNotFoundError"]
       ELSE [removed EXCEPT
                !.statuses[partner_id].Dating = 0,
                !.statuses[g].Married = partner_id,
                !.statuses[partner_id].Married = g,
                !.log = Append(@, LifeEventRecord("Marriage", <<g, partner_id>>))]

\* The worlds after the effect of event e on gameobject g.
effect(e, w, g, how) ==
    CASE e = "Death" -> {DeathEvent_cb(w, g)}
      [] e = "Became Senior" -> {BecameSeniorEvent_cb(w, g)}
      [] e = "Dating" -> {StartedDatingEvent_cb(w, g, m) : m \in SingleLoveInterests(w, g)}
      [] e = "Marriage" -> {MarriageEvent_cb(w, g, how)}

\* The life event processor: for every character of the world, in the order
\* of the ids, every registered event whose draw passes its probability and
\* whose precondition holds takes effect. The worlds after the k-th pair of
\* a character and an event, and the pairs behind it.
EventPairs == [k \in 1..(Cardinality(EvChars) * Len(DefaultEvents)) |->
                  <<((k - 1) \div Len(DefaultEvents)) + 1,
                    DefaultEvents[((k - 1) % Len(DefaultEvents)) + 1]>>]
RECURSIVE ProcessEvents(_, _, _, _)
ProcessEvents(ws, k, passing, how) ==
    IF k > Len(EventPairs) THEN ws
    ELSE LET g == EventPairs[k][1]
             e == EventPairs[k][2]
             after(w) == IF /\ w.error = "none"
                            /\ g \in w.world
                            /\ k \in passing
                            /\ precondition(e, w, g)
                         THEN effect(e, w, g, how) ELSE {w}
         IN ProcessEvents(UNION {after(w) : w \in ws}, k + 1, passing, how)

\* World.step(): the purge of the gameobjects deleted in the last step, then
\* the life event processor; passing are the pairs whose draw passes.
ev_step(passing, how) ==
    /\ LET purged == [world |-> evWorld \ SeqToSet(evDead), dead |-> <<>>,
                      chars |-> evChars, statuses |-> evStatuses,
                      network |-> evNetwork, log |-> evLog, error |-> "none"]
       IN \E w \in ProcessEvents({purged}, 1, passing, how) :
              /\ Len(w.log) <= MaxEventLog
              /\ evWorld' = w.world
              /\ evDead' = w.dead
              /\ evChars' = w.chars
              /\ evStatuses' = w.statuses
              /\ evNetwork' = w.network
              /\ evLog' = w.log
              /\ evError' = w.error
    /\ UNCHANGED evRest

\* A living character ages a year.
ev_age(c) ==
    /\ c \in evWorld
    /\ evChars[c].alive
    /\ evChars[c].age < max_age
    /\ evChars' = [evChars EXCEPT ![c].age = @ + 1]
    /\ UNCHANGED <<evWorld, evDead, evStatuses, evNetwork, evLog, evError>>
    /\ UNCHANGED evRest

InitEvents ==
    /\ evWorld = EvChars
    /\ evDead = <<>>
    /\ evChars = [c \in EvChars |-> [alive |-> TRUE, age |-> 0]]
    /\ evStatuses = [c \in EvChars |-> NoStatuses]
    /\ evNetwork = EvChars
    /\ evLog = <<>>
    /\ evError = "none"

NextEvents ==
    \/ \E c \in EvChars : ev_age(c)
    \/ \E passing \in SUBSET (1..Len(EventPairs)) :
           \E how \in IF \E k \in passing : EventPairs[k][2] = "Marriage"
                       THEN MissingStatusRemovals ELSE {"ignored"} :
               ev_step(passing, how)

Init == InitECS /\ InitRel /\ InitLife /\ InitDet /\ InitSim /\ InitLookup /\ InitQuery /\ InitTree
        /\ InitResources /\ InitSystems /\ InitPlugins
        /\ InitArchetypes /\ InitSchools /\ InitCouples
        /\ InitOldAge /\ InitEvents

SpecECS == Init /\ [][NextECS]_vars

SpecRel == Init /\ [][NextRel]_vars

SpecLife == Init /\ [][NextLife]_vars

SpecDet == Init /\ [][NextDet]_vars

SpecSched == Init /\ [][NextSched]_vars

SpecBus == Init /\ [][NextBus]_vars

SpecLookup == Init /\ [][NextLookup]_vars

SpecQuery == Init /\ [][NextQuery]_vars

SpecTree == Init /\ [][NextTree]_vars

SpecRelEvents == Init /\ [][NextRelEvents]_vars

SpecResources == Init /\ [][NextResources]_vars

SpecSystems == Init /\ [][NextSystems]_vars

SpecPlugins == Init /\ [][NextPlugins]_vars

SpecArchetypes == Init /\ [][NextArchetypes]_vars

SpecSchools == Init /\ [][NextSchools]_vars

SpecCouples == Init /\ [][NextCouples]_vars

SpecOldAge == Init /\ [][NextOldAge]_vars

SpecEvents == Init /\ [][NextEvents]_vars

\* ------------------------------------------------- deferred destruction
\* C1: a gameobject whose destruction was requested stays in the world and
\* in the query results until step() is called again: no operation but the
\* purge at the start of a step takes a gameobject out of the world,
\* delete_gameobject leaves every query result as it is, and the purge at the
\* start of the next step takes every gameobject queued for destruction out
\* of the world and out of every query.
C1_DeferredDestroy ==
    [][/\ ~StepBegin =>
            \A g \in Ids : has_gameobject(g) => has_gameobject(g)'
       /\ \A g \in Ids : delete_gameobject(g) =>
            \A t \in Types : WorldGetComponent(t)' = WorldGetComponent(t)
       /\ StepBegin =>
            \A g \in SeqToSet(dead) :
                /\ ~has_gameobject(g)'
                /\ \A t \in Types : g \notin ecsComponents'[t]]_vars

\* C2: destroy is idempotent: a gameobject may be queued for destruction any
\* number of times before the next step, and that step completes without an
\* error.
C2_DestroyIdempotent == stepError = "none"

\* ------------------------------------------------ one component per type
\* No type is stored twice in a gameobject, nor in esper's entity.
OneComponentPerType ==
    \A g \in Ids, t \in Types :
        /\ DictCount(goComponents[g], t) <= 1
        /\ DictCount(ecsEntities[g], t) <= 1

\* Adding a component makes it the component get_component returns for its
\* type, and the one the query for its type yields for the gameobject.
AddReplaces ==
    \A g \in Ids, c \in Components :
        add_component(g, c) =>
            /\ get_component(g, c.type)' = c.inst
            /\ {p \in WorldGetComponent(c.type)' : p[1] = g} = {<<g, c.inst>>}

\* C3: every gameobject holds at most one component of a type, in its own
\* store and in the query index, and a component added under a type already
\* held replaces the one stored.
C3_OneComponentPerType == []OneComponentPerType /\ [][AddReplaces]_vars

\* C3 witness: a component was added to a gameobject that already held one of
\* its type, and the gameobject holds the new instance alone under the type.
C3_Witness ==
    /\ lastOp = "add_component_again"
    /\ \E g \in Ids : has_gameobject(g) /\ DictCount(goComponents[g], "A") = 1

\* ------------------------------------------------------ relationship graph
\* C4: the two indices are symmetric: target is a key of owner.outgoing iff
\* owner is a key of target.incoming, and the two entries hold the same
\* relationship gameobject.
C4_SymmetricIndex ==
    \A o \in Chars, t \in Chars :
        /\ DictHas(outgoing[o], t) <=> DictHas(incoming[t], o)
        /\ DictHas(outgoing[o], t) =>
               DictGet(outgoing[o], t) = DictGet(incoming[t], o)

\* C4 witness: relationships were created, one was purged, one was
\* deactivated and is still indexed from both ends, and a character is gone.
C4_Witness ==
    /\ \E r \in RelIds : r <= rNextId /\ r \notin rGameobjects
    /\ \E r \in RelIds : /\ r \in rGameobjects /\ r \notin rActive
                         /\ DictGet(outgoing[owner(r)], target(r)) = r
                         /\ DictGet(incoming[target(r)], owner(r)) = r
    /\ \E c \in Chars : c \notin rGameobjects

\* The relationships in the world from o to t.
RelationshipsOf(o, t) ==
    {r \in RelIds : r \in rGameobjects /\ relationship[r] = <<o, t>>}

\* At most one relationship gameobject per ordered pair, and it is the one
\* the owner's index holds; one event and one pass over the rules per
\* relationship created.
OneRelationshipPerPair ==
    /\ \A o \in Chars, t \in Chars :
          /\ Cardinality(RelationshipsOf(o, t)) <= 1
          /\ \A r \in RelationshipsOf(o, t) :
                 has_relationship(o, t) /\ DictGet(outgoing[o], t) = r
    /\ \A r \in RelIds :
          /\ Cardinality({i \in 1..Len(createdEvents) : createdEvents[i] = r})
                 = (IF r <= rNextId THEN 1 ELSE 0)
          /\ Cardinality({i \in 1..Len(ruleChecks) : ruleChecks[i] = r})
                 = (IF r <= rNextId THEN 1 ELSE 0)

\* A call for a pair that has a relationship returns it and creates nothing,
\* dispatches nothing and evaluates no rule; a call for a pair that has none
\* returns the relationship it creates.
GetOrCreateIdempotent ==
    \A o \in Chars, t \in Chars :
        (add_relationship(o, t) \/ get_relationship(o, t)) =>
            /\ lastCall'.result = DictGet(outgoing'[o], t)
            /\ has_relationship(o, t) =>
                  /\ lastCall'.result = DictGet(outgoing[o], t)
                  /\ ~lastCall'.created
                  /\ rGameobjects' = rGameobjects
                  /\ createdEvents' = createdEvents
                  /\ ruleChecks' = ruleChecks
            /\ ~has_relationship(o, t) =>
                  /\ lastCall'.created
                  /\ createdEvents' = Append(createdEvents, lastCall'.result)
                  /\ ruleChecks' = Append(ruleChecks, lastCall'.result)

\* C5: get_relationship / add_relationship are idempotent: there is at most
\* one relationship gameobject per ordered pair, every call for the pair
\* returns it, and only the call that creates it dispatches the
\* relationship-created event and evaluates the social rules.
C5_GetOrCreateIdempotent == []OneRelationshipPerPair /\ [][GetOrCreateIdempotent]_vars

\* C5 witness: a call found the relationship of its pair and returned it.
C5_Witness ==
    /\ lastCall.result \in RelIds
    /\ ~lastCall.created
    /\ lastCall.result \in rGameobjects
    /\ Len(createdEvents) >= 1

\* ------------------------------------------------------------ life events
\* g holds the components role type rt requires and passes its filter, the
\* event holding the roles bound before it.
Satisfies(rt, world, event, g) ==
    /\ le_has_component(world, g, rt.components)
    /\ filter_fn(rt.filter_fn, world, event, g)

\* Every role the event's type declares is bound, in the declared order, to a
\* gameobject that satisfies the role type.
FullyBound(event) ==
    /\ event.name \in LifeEventTypes
    /\ LET et == LifeEventType(event.name) IN
       /\ Len(event.roles) = Len(et.roles)
       /\ \A i \in 1..Len(event.roles) :
             /\ event.roles[i].name = et.roles[i].name
             /\ event.roles[i].gid \in LEObjs
             /\ Satisfies(et.roles[i], leWorld,
                          [event EXCEPT !.roles = SubSeq(@, 1, i - 1)],
                          event.roles[i].gid)

DeclaredRoles(type) ==
    IF type = "GetPregnant" THEN GetPregnantRoles
    ELSE IF type \in LifeEventTypes THEN RoleNames(type) ELSE {}

\* C7: when the caller supplies gameobject c for a declared role R,
\* instantiate returns nothing or an event in which R is bound to c; R is
\* never bound to another gameobject.
C7_SuppliedBindingKept ==
    \A i \in 1..Len(lastInst.kwargs) :
        (/\ lastInst.result # NoEvent
         /\ lastInst.kwargs[i][1] \in DeclaredRoles(lastInst.type))
        => \E j \in 1..Len(lastInst.result.roles) :
               /\ lastInst.result.roles[j].name = lastInst.kwargs[i][1]
               /\ lastInst.result.roles[j].gid = lastInst.kwargs[i][2]

\* C8: bind-then-gate: in every attempt of a tick the random draw is made
\* only after instantiate has bound the roles, and the effect function and
\* the log entry come together.
C8_BindThenGate ==
    \A i \in 1..Len(lastTick) :
        LET steps == lastTick[i].steps IN
        /\ \A j \in 1..Len(steps) :
               steps[j] = "random" => \E k \in 1..(j - 1) : steps[k] = "instantiate"
        /\ LifeEventType(lastTick[i].type).execute_fn =>
               (InSeq("execute_fn", steps) <=> InSeq("record_event", steps))

\* The attempts of a tick that recorded an event.
RECURSIVE Recording(_, _)
Recording(tick, i) ==
    IF i > Len(tick) THEN <<>>
    ELSE (IF InSeq("record_event", tick[i].steps) THEN <<tick[i]>> ELSE <<>>)
         \o Recording(tick, i + 1)

\* A process() that fires attempts each registered type once, in the order
\* of registration; the log grows by the events of the attempts that bound
\* their roles, in that order, and by nothing else.
DriverAttemptsEachOnce ==
    (process /\ ~(date < next_trigger)) =>
        /\ Len(lastTick') = Len(registry)
        /\ \A i \in 1..Len(registry) :
              /\ lastTick'[i].type = LifeEventType(registry[i][2]).name
              /\ lastTick'[i].steps[Len(lastTick'[i].steps)] = "instantiate"
                     => ~InSeq("execute_fn", lastTick'[i].steps)
        /\ LET rec == Recording(lastTick', 1) IN
           /\ Len(event_history') = Len(event_history) + Len(rec)
           /\ SubSeq(event_history', 1, Len(event_history)) = event_history
           /\ \A j \in 1..Len(rec) :
                  event_history'[Len(event_history) + j].name = rec[j].type

AppendOnly ==
    /\ Len(event_history') >= Len(event_history)
    /\ SubSeq(event_history', 1, Len(event_history)) = event_history

Registered == DefaultRegistrations \o added
RegIndex(x) == CHOOSE i \in 1..Len(Registered) : Registered[i].system = x
ParentOf(x) == Registered[RegIndex(x)].group
PriorityOf(x) == Registered[RegIndex(x)].priority
\* From the child of the root down to x.
RECURSIVE PathTo(_)
PathTo(x) == IF ParentOf(x) = Root THEN <<x>> ELSE Append(PathTo(ParentOf(x)), x)
TopRank(g) == CHOOSE i \in 1..Len(TopGroups) : TopGroups[i] = g
\* Where the ways to a and to b part: the two children of one group.
Fork(a, b) ==
    LET pa == PathTo(a)
        pb == PathTo(b)
        k == CHOOSE i \in 1..Len(pa) :
                 /\ i <= Len(pb)
                 /\ pa[i] # pb[i]
                 /\ \A j \in 1..(i - 1) : pa[j] = pb[j]
    IN <<pa[k], pb[k]>>
\* a child of a group runs before another one of the same group: by priority,
\* then by registration
SiblingBefore(x, y) ==
    \/ PriorityOf(x) > PriorityOf(y)
    \/ PriorityOf(x) = PriorityOf(y) /\ RegIndex(x) < RegIndex(y)
Leaves == {Registered[i].system : i \in 1..Len(Registered)} \ Groups
StepComplete == simPc = 0 /\ ran # <<>> /\ driver.status \in {"running", "returned"}

\* C12: within a step the systems of initialization run first, then those of
\* early-update, of update and of late-update; a group runs its children in
\* depth, so that of two systems the one runs first whose branch comes first
\* in the group where their branches part, by priority and then by
\* registration; priority never moves a system past another group. A whole
\* step runs every system once.
C12_GroupOrder ==
    /\ \A i \in 1..Len(ran) : \A j \in (i + 1)..Len(ran) :
           LET a == ran[i].system
               b == ran[j].system
               ta == PathTo(a)[1]
               tb == PathTo(b)[1]
           IN /\ a # b
              /\ (ta \in Groups /\ tb \in Groups) => TopRank(ta) <= TopRank(tb)
              /\ SiblingBefore(Fork(a, b)[1], Fork(a, b)[2])
    /\ StepComplete => {ran[i].system : i \in 1..Len(ran)} = Leaves

\* A whole step in which a plugin's system of late-update with the higher
\* priority ran after one of early-update's status group with the lower one.
C12_Witness ==
    /\ StepComplete
    /\ \E i \in 1..Len(ran) : \E j \in (i + 1)..Len(ran) :
           /\ ran[i].system \in PluginSystems
           /\ ran[j].system \in PluginSystems
           /\ ParentOf(ran[i].system) = "StatusUpdate"
           /\ ParentOf(ran[j].system) = "LateUpdate"
           /\ PriorityOf(ran[i].system) < PriorityOf(ran[j].system)

RanSystems == {ran[i].system : i \in 1..Len(ran)}

C16_RunForStepBoundary ==
    /\ (driver.call = "run_for" /\ driver.status = "returned") =>
           simDate = driver.date0 + driver.n
    /\ driver.status = "interrupted" => (ran = <<>> \/ RanSystems = Leaves)

\* --------------------------------------------------------------- event bus
\* The listeners registered under a kind (an event type, or "any"), in the
\* order of their registration.
ListenersFor(kind) ==
    LET r == SelectSeq(registrations, LAMBDA x : x.kind = kind)
    IN [i \in 1..Len(r) |-> r[i].listener]
\* The listeners the last dispatch invoked as listeners of the event's type,
\* or as any-event listeners, in the order of the calls.
InvokedVia(kind) ==
    LET r == SelectSeq(dispatched.invoked, LAMBDA x : x.via = kind)
    IN [i \in 1..Len(r) |-> r[i].listener]

C14_WitnessTyped ==
    /\ dispatched.event # "none"
    /\ ~dispatched.raised
    /\ Len(InvokedVia("typed")) = 1
    /\ \E i \in 1..Len(registrations) :
           registrations[i].kind \notin {dispatched.event, "any"}

IsPrefix(a, b) == Len(a) <= Len(b) /\ a = SubSeq(b, 1, Len(a))

\* C15: a listener that raises is the last one the dispatch invokes: the
\* listeners registered after it are not called, the exception leaves the
\* dispatching system and step(), and no other system of the step runs, the
\* time system included.
C15_ListenerErrorAbortsStep ==
    /\ IsPrefix(InvokedVia("typed"), ListenersFor(dispatched.event))
    /\ IsPrefix(InvokedVia("any"), ListenersFor("any"))
    /\ \A i \in 1..Len(dispatched.invoked) :
           Raises(dispatched.invoked[i].listener) =>
               /\ i = Len(dispatched.invoked)
               /\ dispatched.raised
               /\ simPc = 0
               /\ ran # <<>> =>
                      /\ driver.status = "raised"
                      /\ ran[Len(ran)].system = "RandomLifeEvent"
                      /\ "Time" \notin RanSystems
                      /\ simDate = ran[1].date

\* step() ended with the exception of the first of two any-event listeners;
\* the second one was not called.
C15_Witness ==
    /\ driver.status = "raised"
    /\ ran # <<>>
    /\ Len(ListenersFor("any")) = 2
    /\ ~Raises(ListenersFor("any")[2])
    /\ Len(dispatched.invoked) = 1
    /\ Raises(dispatched.invoked[1].listener)

\* ----------------------------------------------------------------- lookups
\* The call just made asked for a gameobject that is not in the world, or for
\* a component the gameobject does not hold.
GameObjectMissing == ~DictHas(lkObjects, lkCall'.gid)
ComponentMissing ==
    /\ DictHas(lkObjects, lkCall'.gid)
    /\ ~DictHas(DictGet(lkObjects, lkCall'.gid), lkCall'.type)
NotFoundLookup ==
    /\ lkCall'.op = "get_gameobject" /\ GameObjectMissing
           => lkCall'.raised = "GameObjectNotFoundError"
    /\ lkCall'.op \in {"get_component", "remove_component"} /\ ComponentMissing
           => lkCall'.raised = "ComponentNotFoundError"
    /\ lkCall'.op = "try_gameobject" /\ GameObjectMissing
           => lkCall'.raised = "none" /\ lkCall'.value = None
    /\ lkCall'.op = "try_component" /\ ComponentMissing
           => lkCall'.raised = "none" /\ lkCall'.value = None
    /\ \/ lkCall'.op \in {"get_gameobject", "try_gameobject"} /\ GameObjectMissing
       \/ /\ lkCall'.op \in {"get_component", "remove_component", "try_component"}
          /\ ComponentMissing
       => lkObjects' = lkObjects /\ lkCall'.hooks = <<>>

\* C17: a lookup of a gameobject that is not in the world raises
\* GameObjectNotFoundError from get_gameobject and returns none from
\* try_gameobject; get_component and remove_component of a type the
\* gameobject does not hold raise ComponentNotFoundError and try_component
\* returns none; none of these calls changes the world or a gameobject, or
\* runs a lifecycle hook.
C17_NotFoundLookups == [][NotFoundLookup]_vars

\* remove_component of a type the gameobject does not hold raised, on a
\* gameobject that holds another component.
C17_Witness ==
    /\ lkCall.op = "remove_component"
    /\ lkCall.raised = "ComponentNotFoundError"
    /\ DictHas(lkObjects, lkCall.gid)
    /\ DictGet(lkObjects, lkCall.gid) # <<>>

\* ----------------------------------------------------------------- queries
\* The ids holding every type of a query, in the order the gameobjects were
\* created.
HoldersInCreationOrder(ts) ==
    SelectSeq(qGameobjects, LAMBDA g : \A t \in ts : g \in qComponents[t])

\* C20: a query returns the ids of the gameobjects holding every requested
\* type, in the order the gameobjects were created, and get_gameobjects
\* returns all gameobjects in the order they were spawned.
C20_QueryInCreationOrder ==
    /\ qResult.op = "get_components" => qResult.ids = HoldersInCreationOrder(qResult.types)
    /\ qResult.op = "get_gameobjects" => qResult.ids = [i \in 1..qNextId |-> i]

\* What does hold: a query returns every id holding the types, each once,
\* and get_gameobjects the gameobjects in spawn order.
C20_QueryExactIds ==
    /\ qResult.op = "get_components" =>
           /\ {qResult.ids[i] : i \in 1..Len(qResult.ids)}
                  = {g \in 1..qNextId : \A t \in qResult.types : g \in qComponents[t]}
           /\ \A i, j \in 1..Len(qResult.ids) : qResult.ids[i] = qResult.ids[j] => i = j
    /\ qResult.op = "get_gameobjects" => qResult.ids = [i \in 1..qNextId |-> i]

\* --------------------------------------------------------------- hierarchy
\* The gameobjects a step removes: the queued ones and all below them.
Doomed ==
    {d \in hGameobjects :
        \E k \in 1..Len(hDead) : IsAncestorOrSelf(hierarchy, hDead[k], d)}
PurgeRemovesSubtrees ==
    (hDead # <<>> /\ hDead' = <<>>) =>
        /\ hGameobjects' = hGameobjects \ Doomed
        /\ {hRemoved'[k].id : k \in 1..Len(hRemoved')} = Doomed
        /\ Len(hRemoved') = Cardinality(Doomed)
        /\ \A i, j \in 1..Len(hRemoved') :
               hierarchy.parent[hRemoved'[i].id] = hRemoved'[j].id => i < j

\* C18: the step after destroy(g) removes g and every gameobject below g,
\* each one before its parent, and no other gameobject: the gameobjects above
\* g and beside it stay in the world.
C18_DestroyRemovesDescendants == [][PurgeRemovesSubtrees]_vars

\* A step removed a grandchild, then a child, then the gameobject that was
\* destroyed.
C18_Witness ==
    /\ Len(hRemoved) = 3
    /\ hRemoved[1].parent = hRemoved[2].id
    /\ hRemoved[2].parent = hRemoved[3].id
    /\ hDead = <<>>

\* A step removed a gameobject and its child, and left the gameobject's
\* parent in the world.
C18_WitnessAncestor ==
    /\ Len(hRemoved) = 2
    /\ hRemoved[1].parent = hRemoved[2].id
    /\ hRemoved[2].parent \in hGameobjects

ChildrenMatchParent ==
    \A p \in TreeIds, c \in TreeIds :
        InSeq(c, hierarchy.children[p]) <=> hierarchy.parent[c] = p
OneParent ==
    \A c \in TreeIds :
        /\ Cardinality({p \in TreeIds : InSeq(c, hierarchy.children[p])}) <= 1
        /\ \A p \in TreeIds :
               Cardinality({i \in 1..Len(hierarchy.children[p]) :
                               hierarchy.children[p][i] = c}) <= 1

\* C19: a gameobject is among the children of p exactly when p is its
\* parent, and it has one parent at most; add_child of a gameobject that had
\* another parent takes it out of that parent's children, and remove_child
\* leaves it without a parent.
C19_ParentChildConsistent ==
    /\ ChildrenMatchParent
    /\ OneParent
    /\ (hCall.op = "add_child" /\ hCall.from \notin {None, hCall.p}) =>
           /\ ~InSeq(hCall.c, hierarchy.children[hCall.from])
           /\ hierarchy.parent[hCall.c] = hCall.p
    /\ hCall.op = "remove_child" =>
           /\ hierarchy.parent[hCall.c] = None
           /\ ~InSeq(hCall.c, hierarchy.children[hCall.p])

\* add_child has moved a gameobject from one parent to another.
C19_Witness ==
    /\ hCall.op = "add_child"
    /\ hCall.from \notin {None, hCall.p}
    /\ InSeq(hCall.c, hierarchy.children[hCall.p])

\* ------------------------------------------------------- component index
\* The ids world.get_component(t) yields.
QueryIds(t) == {pair[1] : pair \in WorldGetComponent(t)}

\* C21: for every gameobject in the world and every component type, the
\* gameobject holds a component of the type exactly when the query for the
\* type yields its id, whatever add_component, remove_component or spawn
\* came before.
C21_IndexMatchesComponents ==
    \A g \in Ids : has_gameobject(g) =>
        \A t \in Types : has_component(g, t) <=> g \in QueryIds(t)

\* Two gameobjects in the world, each holding the type the other one lacks.
C21_Witness ==
    \E g \in Ids, o \in Ids :
        /\ has_gameobject(g) /\ has_gameobject(o)
        /\ has_component(g, "A") /\ ~has_component(g, "B")
        /\ has_component(o, "B") /\ ~has_component(o, "A")
        /\ QueryIds("A") = {g}

\* --------------------------------------------------------- lifecycle hooks
\* The on_add hooks of a list of components, one for each, in the list's
\* order.
OnAddEach(cs, hooks) ==
    /\ Len(hooks) = Len(cs)
    /\ \A i \in 1..Len(cs) :
           /\ hooks[i].hook = "on_add"
           /\ hooks[i].type = cs[i].type
           /\ hooks[i].inst = cs[i].inst

\* C22: spawn runs on_add once for each component it was given, in the order
\* given; add_component runs on_add once, for the component added;
\* remove_component runs on_remove once, while the gameobject still holds
\* the component, and the component is gone afterwards.
C22_HooksOncePerAttachment ==
    /\ lkCall.op \in {"spawn_gameobject", "add_component"} =>
           OnAddEach(lkCall.cs, lkCall.hooks)
    /\ (lkCall.op = "remove_component" /\ lkCall.raised = "none") =>
           /\ Len(lkCall.hooks) = 1
           /\ lkCall.hooks[1].hook = "on_remove"
           /\ lkCall.hooks[1].type = lkCall.type
           /\ lkCall.hooks[1].attached
           /\ ~DictHas(DictGet(lkObjects, lkCall.gid), lkCall.type)

\* A spawn with two components of different types has run their on_add
\* hooks.
C22_Witness ==
    /\ lkCall.op = "spawn_gameobject"
    /\ Len(lkCall.cs) = 2
    /\ lkCall.cs[1].type # lkCall.cs[2].type
    /\ Len(lkCall.hooks) = 2

\* --------------------------------------------------------------- fresh ids
SpawnReturnsFreshId ==
    Len(gameobjects') > Len(gameobjects) =>
        gameobjects'[Len(gameobjects')] \notin issued
NoSharedId ==
    \A i, j \in 1..Len(gameobjects) : gameobjects[i] = gameobjects[j] => i = j

\* C23: the id a spawn returns was never returned by an earlier spawn of the
\* world, not even for a gameobject that has been destroyed and purged since,
\* and no two gameobjects of the world have the same id.
C23_FreshIds == []NoSharedId /\ [][SpawnReturnsFreshId]_vars

\* A gameobject was spawned after an earlier one had been purged.
C23_Witness ==
    \E g \in issued, o \in issued :
        /\ ~has_gameobject(g)
        /\ has_gameobject(o)
        /\ g < o

\* --------------------------------------------------------------- resources
\* C24: the registry holds one resource per type at most; add_resource of a
\* type that is registered replaces the resource and does not raise, and
\* get_resource of the type returns the resource just added.
C24_OneResourcePerType ==
    /\ \A t \in ResourceTypes : DictCount(resources, t) <= 1
    /\ rsCall.op = "add_resource" =>
           /\ rsCall.raised = "none"
           /\ get_resource(resources, rsCall.type)
                  = [raised |-> "none", value |-> rsCall.inst]

\* add_resource has replaced a resource of the type by another one, next to
\* a resource of the other type.
C24_Witness ==
    /\ rsCall.op = "add_resource"
    /\ rsCall.warned
    /\ Len(resources) = 2
    /\ resources[1][1] = rsCall.type
    /\ resources[1][2] = rsCall.inst

TypeMissing == ~has_resource(resources, rsCall'.type)
ResourceNotFound ==
    /\ (rsCall'.op \in {"remove_resource", "get_resource"} /\ TypeMissing) =>
           /\ rsCall'.raised = "ResourceNotFoundError"
           /\ resources' = resources
    /\ (rsCall'.op = "try_resource" /\ TypeMissing) =>
           /\ rsCall'.raised = "none"
           /\ rsCall'.value = None
           /\ resources' = resources
    /\ (rsCall'.op = "remove_resource" /\ ~TypeMissing) =>
           /\ rsCall'.raised = "none"
           /\ ~has_resource(resources', rsCall'.type)
           /\ \A t \in ResourceTypes \ {rsCall'.type} :
                  /\ has_resource(resources', t) <=> has_resource(resources, t)
                  /\ has_resource(resources, t) =>
                         DictGet(resources', t) = DictGet(resources, t)

\* C25: remove_resource and get_resource of a type that is not registered
\* raise ResourceNotFoundError and try_resource returns none, and the
\* registry stays as it was; remove_resource of a registered type leaves
\* has_resource false for it and the other resources as they were.
C25_ResourceNotFound == [][ResourceNotFound]_vars

\* remove_resource of a type that is not registered raised, with a resource
\* of the other type registered.
C25_Witness ==
    /\ rsCall.op = "remove_resource"
    /\ rsCall.raised = "ResourceNotFoundError"
    /\ resources # <<>>

\* ------------------------------------------------ relationships, continued
HasIsPure ==
    lastCall'.has # <<>> =>
        LET o == lastCall'.has[1]
            t == lastCall'.has[2]
        IN /\ lastCall'.has[3] <=> RelationshipsOf(o, t) # {}
           /\ rGameobjects' = rGameobjects
           /\ rNextId' = rNextId
           /\ createdEvents' = createdEvents
           /\ ruleChecks' = ruleChecks
           /\ outgoing' = outgoing
           /\ incoming' = incoming

\* C26: has_relationship(owner, target) is true iff a relationship gameobject
\* from owner to target exists, and the call creates no gameobject,
\* dispatches no event and leaves every outgoing and incoming index as it was.
C26_HasIsPure == [][HasIsPure]_vars

\* has_relationship answered true for a pair whose reverse pair has no
\* relationship.
C26_Witness ==
    /\ Len(lastCall.has) = 3
    /\ lastCall.has[3]
    /\ lastCall.has[1] # lastCall.has[2]
    /\ RelationshipsOf(lastCall.has[2], lastCall.has[1]) = {}

StepsOf(steps, name) == SelectSeq(steps, LAMBDA st : st.step = name)
\* C27: a call that creates a relationship spawns the gameobject with the
\* base components, then dispatches one RelationshipCreatedEvent, then
\* evaluates check_preconditions of every registered rule once, in
\* registration order, and calls apply right after the check of the rules
\* that pass and of no other.
C27_CreationOrder ==
    lastCall.created =>
        LET steps == lastCall.steps
            r == lastCall.result
            checks == StepsOf(steps, "check_preconditions")
        IN /\ Len(steps) >= 2
           /\ steps[1].step = "instantiate"
           /\ steps[1].arg = BaseComponents
           /\ StatTypes \subseteq SeqToSet(steps[1].arg)
           /\ steps[2].step = "dispatch"
           /\ steps[2].arg = r
           /\ Len(StepsOf(steps, "dispatch")) = 1
           /\ Len(StepsOf(steps, "instantiate")) = 1
           /\ Len(checks) = Len(socialRules)
           /\ \A i \in 1..Len(checks) : checks[i].arg = socialRules[i]
           /\ \A i \in 3..Len(steps) :
                  /\ steps[i].step \in {"check_preconditions", "apply"}
                  /\ steps[i].step = "apply" =>
                         /\ steps[i - 1].step = "check_preconditions"
                         /\ steps[i - 1].arg = steps[i].arg
                         /\ check_preconditions(steps[i].arg, owner(r), target(r))
                  /\ (/\ steps[i].step = "check_preconditions"
                      /\ check_preconditions(steps[i].arg, owner(r), target(r))) =>
                         /\ i < Len(steps)
                         /\ steps[i + 1].step = "apply"
                         /\ steps[i + 1].arg = steps[i].arg

\* A relationship was created with two rules registered, one of which the
\* pair does not pass.
C27_Witness ==
    /\ lastCall.created
    /\ Len(socialRules) = 2
    /\ Len(StepsOf(lastCall.steps, "apply")) = 1

\* C28: right after a call creates a relationship, its active-rule list holds
\* the registered rules whose precondition the pair passes and no other, and
\* its stat components are at their base value 0.
C28_ActiveRulesAtCreation ==
    lastCall.created =>
        LET r == lastCall.result IN
        /\ active_rules[r] =
               SelectSeq(socialRules,
                         LAMBDA rule : check_preconditions(rule, owner(r), target(r)))
        /\ \A st \in StatTypes : stats[r][st] = 0

DeathDeactivates ==
    lastCall'.event # <<>> =>
        LET c == lastCall'.event[2] IN
        /\ \A r \in RelIds :
               (r \in rGameobjects /\ c \in {owner(r), target(r)}) => r \notin rActive'
        /\ outgoing' = outgoing
        /\ incoming' = incoming
        /\ \A o \in Chars, t \in Chars :
               /\ DictHas(outgoing'[o], t) <=> DictHas(incoming'[t], o)
               /\ DictHas(outgoing'[o], t) =>
                      DictGet(outgoing'[o], t) = DictGet(incoming'[t], o)

\* C29: the dispatch of a death or depart event of a character deactivates
\* every relationship gameobject the character is the owner or the target
\* of, and leaves the outgoing entry on each owner and the incoming entry on
\* each target in place, the two indices symmetric.
C29_DeathDeactivates == [][DeathDeactivates]_vars

\* A character departed or died that was the target of an active
\* relationship of another character: the relationship is inactive and in
\* both indices.
C29_Witness ==
    /\ Len(lastCall.event) = 2
    /\ \E r \in RelIds :
          /\ r \in rGameobjects
          /\ target(r) = lastCall.event[2]
          /\ owner(r) # lastCall.event[2]
          /\ r \notin rActive
          /\ DictGet(incoming[target(r)], owner(r)) = r

\* ------------------------------------------------- life events, continued
RoleOrder(roles) == [i \in 1..Len(roles) |-> roles[i].name]
\* C30: instantiate binds the roles in the order the type declares them: the
\* event handed to the filter or binder of role i holds the roles before i
\* and no other; the pass that leaves a role unfilled is the last one, it
\* draws nothing, and no later role is looked at; an event that is returned
\* lists the roles in the declared order.
C30_RolesBoundInOrder ==
    lastInst.type \in LifeEventTypes =>
        LET roles == LifeEventType(lastInst.type).roles
            calls == lastInst.calls
            result == lastInst.result
        IN /\ Len(calls) <= Len(roles)
           /\ \A k \in 1..Len(calls) :
                  /\ calls[k].role = roles[k].name
                  /\ RoleOrder(calls[k].bound) = SubSeq(RoleOrder(roles), 1, k - 1)
                  /\ k < Len(calls) => calls[k].filled
                  /\ calls[k].draw => calls[k].filled
           /\ result # NoEvent =>
                  /\ Len(calls) = Len(roles)
                  /\ \A k \in 1..Len(calls) : calls[k].filled
                  /\ RoleOrder(result.roles) = RoleOrder(roles)
                  /\ \A k \in 1..Len(calls) :
                         calls[k].bound = SubSeq(result.roles, 1, k - 1)
           /\ result = NoEvent =>
                  /\ Len(calls) >= 1
                  /\ ~calls[Len(calls)].filled

\* Meet was given a candidate for its second role that the first role took:
\* the filter of the second role, run with the first role bound, rejected it.
C30_Witness ==
    /\ lastInst.type = "Meet"
    /\ lastInst.result = NoEvent
    /\ Len(lastInst.calls) = 2
    /\ lastInst.calls[1].draw
    /\ Len(lastInst.calls[2].bound) = 1

\* Meet found nobody for its first role and did not look at the second.
C30_WitnessStopped ==
    /\ lastInst.type = "Meet"
    /\ lastInst.result = NoEvent
    /\ Len(lastInst.calls) = 1

TickGate ==
    /\ ticked' = "attempted" =>
           /\ date >= next_trigger
           /\ next_trigger' = date + Interval
           /\ lastAttempt >= 0 => date >= lastAttempt + Interval
    /\ ticked' = "skipped" =>
           /\ date < next_trigger
           /\ next_trigger' = next_trigger
           /\ lastTick' = <<>>
           /\ event_history' = event_history
           /\ executed' = executed

\* C40: process attempts life events only when the date is at or past
\* next_trigger and then sets next_trigger to the date plus the interval, so
\* that an interval lies between two ticks that attempt events; a tick that
\* is skipped draws nothing, runs no effect and leaves the log as it is.
C40_TickGate == [][TickGate]_vars

\* A tick attempted events an interval after the tick that attempted before
\* it, and logged an event.
C40_Witness ==
    /\ ticked = "attempted"
    /\ lastAttempt = Interval
    /\ next_trigger = lastAttempt + Interval
    /\ event_history # <<>>

\* A tick was skipped after a tick that attempted events.
C40_WitnessSkipped ==
    /\ ticked = "skipped"
    /\ lastAttempt >= 0
    /\ date > lastAttempt

\* ------------------------------------------------------------------ archive
\* C32: archive runs on_archive of every component of the gameobject, then
\* removes each component whose type is removed on archive, running its
\* on_remove while it is attached, and leaves the other components attached;
\* the gameobject stays in the world.
C32_ArchiveStripsOrdinary ==
    lkCall.op = "archive" =>
        LET before == lkCall.cs
            n == Len(before)
            hooks == lkCall.hooks
            ordinary == SelectSeq(before, LAMBDA c : c.type = "A")
            persistent == SelectSeq(before, LAMBDA c : c.type # "A")
        IN /\ lkCall.raised = "none"
           /\ DictHas(lkObjects, lkCall.gid)
           /\ Len(hooks) = n + Len(ordinary)
           /\ \A i \in 1..n :
                  /\ hooks[i].hook = "on_archive"
                  /\ hooks[i].type = before[i].type
                  /\ hooks[i].inst = before[i].inst
                  /\ hooks[i].attached
           /\ \A c \in SeqToSet(ordinary) :
                  Cardinality({i \in (n + 1)..Len(hooks) :
                                  /\ hooks[i].hook = "on_remove"
                                  /\ hooks[i].type = c.type
                                  /\ hooks[i].inst = c.inst
                                  /\ hooks[i].attached}) = 1
           /\ DictGet(lkObjects, lkCall.gid)
                  = [i \in 1..Len(persistent) |->
                        <<persistent[i].type, persistent[i].inst>>]

\* A gameobject holding a component of each kind was archived.
C32_Witness ==
    /\ lkCall.op = "archive"
    /\ Len(lkCall.cs) = 2
    /\ Len(lkCall.hooks) = 3
    /\ Len(DictGet(lkObjects, lkCall.gid)) = 1

\* ------------------------------------------------------------------ systems
\* C33: a step runs every registered system once, so that a system has run
\* as often as steps were taken while it was registered; after
\* remove_system(T) no system of type T is registered, and get_system(T)
\* returns a system iff one of type T was added and not removed since.
C33_SystemsRunOncePerStep ==
    /\ sysCall.op = "step" =>
           \A p \in SeqToSet(processors) :
               Cardinality({i \in 1..Len(sysCall.ran) : sysCall.ran[i] = p.id}) = 1
    /\ \A p \in SeqToSet(processors) : updates[p.id] = stepsSince[p.id]
    /\ \A t \in SystemTypes :
           (\E p \in SeqToSet(processors) : p.type = t) <=> t \in addedTypes
    /\ sysCall.op = "get_system" =>
           (sysCall.value # None <=> sysCall.type \in addedTypes)

\* ------------------------------------------------------------------ plugins
\* v before w, as version numbers.
VersionBefore(v, w) ==
    \/ v[1] < w[1]
    \/ v[1] = w[1] /\ v[2] < w[2]
    \/ v[1] = w[1] /\ v[2] = w[2] /\ v[3] < w[3]
\* The running version v satisfies the constraint: form f and version w.
Satisfied(v, f, w) ==
    CASE f = "<=" -> ~VersionBefore(w, v)
      [] f = ">=" -> ~VersionBefore(v, w)
      [] f = "<" -> VersionBefore(v, w)
      [] f = ">" -> VersionBefore(w, v)
      [] f = "==" -> v = w
SatisfiesRequired(v, required_version) ==
    \/ required_version = NoVersion
    \/ \E f \in Forms, w \in VersionNumbers :
           /\ required_version = FormStr(f) \o VersionStr(w)
           /\ Satisfied(v, f, w)

\* C34: load_plugin raises PluginSetupError and does not call setup when the
\* module has no plugin_info, no callable setup, or a required_version the
\* running version does not satisfy; otherwise it calls setup once.
C34_PluginSetupError ==
    plgCall.op = "load_plugin" =>
        LET module == plgCall.plugin
            fails == \/ ~module.plugin_info
                     \/ module.setup # "function"
                     \/ ~SatisfiesRequired(plgCall.version, module.required_version)
        IN /\ fails => plgCall.raised = "PluginSetupError" /\ plgCall.setup_calls = 0
           /\ ~fails => plgCall.raised = "none" /\ plgCall.setup_calls = 1

\* --------------------------------------------------------------- archetypes
\* The gameobjects of the world spawned from archetype a.
SpawnedFrom(a) == {kv[1] : kv \in {aGameobjects[i] : i \in DOMAIN aGameobjects} \cap (ArchIds \X {a})}

\* C39: the instance counter of every archetype is the number of gameobjects
\* spawned from it that no purge has removed, and is never negative.
C39_InstanceCounter ==
    \A a \in Archetypes :
        /\ instances[a] = Cardinality(SpawnedFrom(a))
        /\ instances[a] >= 0
\* Two gameobjects of an archetype were spawned, one was deleted twice and
\* purged by a step, and the next step has raised on its second entry.
C39_Witness ==
    /\ instances["Person"] = 1
    /\ aNextId >= 2
    /\ aError = "KeyError"
    /\ aDead # <<>>

\* ------------------------------------------------------------------ schools
\* The schools whose students include character c.
RostersOf(c) == {k \in SeqToSet(DictKeys(schools)) : c \in DictGet(schools, k)}

\* C38: in a town with a school, every character with the Student status is
\* a student of exactly one school, and a character the SchoolSystem has
\* graduated, who holds the status no more, is a student of none.
C38_OneRoster ==
    schools # <<>> =>
        \A c \in SeqToSet(DictKeys(pupils)) :
            /\ DictGet(pupils, c).student => Cardinality(RostersOf(c)) = 1
            /\ (c \in graduates /\ ~DictGet(pupils, c).student) => RostersOf(c) = {}

\* ------------------------------------------------------------------ couples
\* C36: an attempt that only instantiates an event, whether an event comes
\* back or not, creates no relationship: the outgoing and incoming
\* relationships of every character are those of before.
C36_InstantiateIsPure ==
    (dLast.type # "none" /\ ~dLast.executed) => dLast.created = {}

\* C37: Dating and Married are symmetric, and no relationship holds both.
C37_StatusesSymmetric ==
    \A a, b \in DChars :
        /\ HasDating(dRels, a, b) <=> HasDating(dRels, b, a)
        /\ HasMarried(dRels, a, b) <=> HasMarried(dRels, b, a)
        /\ ~(HasDating(dRels, a, b) /\ HasMarried(dRels, a, b))
\* A couple that dated, married and divorced.
C37_Witness ==
    /\ dLast.type = "Divorce"
    /\ dLast.executed
    /\ \A a, b \in DChars : ~HasMarried(dRels, a, b) /\ ~HasDating(dRels, a, b)
\* A couple that has married, the year after it started dating.
C37_WitnessMarried ==
    /\ dLast.type = "Marriage"
    /\ dLast.executed
    /\ HasMarried(dRels, 1, 2)
    /\ HasMarried(dRels, 2, 1)

\* ------------------------------------------------------------------ old age
\* C31: with DieOfOldAge registered, its probability forced to 1.0 and one
\* living character whose age is at least its lifespan, a step logs exactly
\* one event, bound to that character, and the character is not among the
\* active characters from then on: no later step binds it.
C31_DiesOfOldAge ==
    /\ (oaLast.op = "step" /\ oaLast.forced /\ Cardinality(oaLast.old) = 1) =>
           /\ Len(oaLast.logged) = 1
           /\ oaLast.logged[1].type = "DieOfOldAge"
           /\ oaLast.logged[1].roles[1][2] \in oaLast.old
           /\ oaLog[Len(oaLog)] = oaLast.logged[1]
    /\ \A i \in 1..Len(oaLog) : oaLog[i].roles[1][2] \notin oaActive
\* Of two characters one was old enough: the step logged its death, and a
\* second step with the probability forced logged nothing more.
C31_Witness ==
    /\ oaLast.op = "step"
    /\ oaLast.forced
    /\ oaLast.old = {}
    /\ Len(oaLog) = 1
    /\ oaActive # {}
    /\ oaLog[1].roles[1][2] \notin oaActive
\* The step that logs the death of the one character old enough.
C31_WitnessStep ==
    /\ oaLast.op = "step"
    /\ oaLast.forced
    /\ Cardinality(oaLast.old) = 1
    /\ Cardinality(oaActive) = 1
    /\ Len(oaLog) = 1

\* ----------------------------------------------------- default plugin events
\* C35: no record of the log that comes after the Death record of a
\* character names that character among its subjects; in particular no
\* character has two Death records.
C35_NothingAfterDeath ==
    \A i, j \in 1..Len(evLog) :
        (i < j /\ evLog[i].name = "Death") =>
            evLog[i].subjects[1] \notin SeqToSet(evLog[j].subjects)

=============================================================================
